---- MODULE Spec2Model ----
(***************************************************************************)
(* Haematocrit phase-separation engine and convergence driver of           *)
(* microBlooM (source/bloodflowmodel/discharge_haematocrit.py and          *)
(* iterative.py).                                                          *)
(*                                                                         *)
(* Numbers.  The program computes in IEEE doubles (numpy float64).  The    *)
(* model computes in exact rationals <<n, d>> with d > 0 and gcd(n,d) = 1, *)
(* extended by the three special doubles numpy produces without raising:   *)
(*   <<0,0>> = nan, <<1,0>> = +inf, <<-1,0>> = -inf,                       *)
(* and by <<2,0>>, a Python sequence (tuple / ndarray) stored where a       *)
(* number is expected.  Rounding error of the doubles is not modelled.     *)
(***************************************************************************)
EXTENDS Integers, Sequences, FiniteSets, TLC

(***************************************************************************)
(* Rational arithmetic with numpy's division-by-zero results.              *)
(***************************************************************************)
Abs(i) == IF i < 0 THEN -i ELSE i

Sign(i) == IF i < 0 THEN -1 ELSE IF i > 0 THEN 1 ELSE 0

RECURSIVE GCD(_, _)
GCD(a, b) == IF b = 0 THEN a ELSE GCD(b, a % b)

Norm(n, d) ==
    LET g == GCD(Abs(n), Abs(d))
        s == IF d < 0 THEN -1 ELSE 1
    IN  IF d = 0 THEN <<Sign(n), 0>> ELSE <<(s * n) \div g, (s * d) \div g>>

Zero == <<0, 1>>
One == <<1, 1>>
NaN == <<0, 0>>
PInf == <<1, 0>>
SeqVal == <<2, 0>>

IsNaN(x) == x = NaN
IsInf(x) == x[2] = 0 /\ x[1] \in {1, -1}
IsFinite(x) == x[2] > 0
IsSeq(x) == x = SeqVal

RNeg(x) == <<-x[1], x[2]>>

RAdd(x, y) ==
    IF IsNaN(x) \/ IsNaN(y) THEN NaN
    ELSE IF IsInf(x) /\ IsInf(y) THEN (IF x = y THEN x ELSE NaN)
    ELSE IF IsInf(x) THEN x
    ELSE IF IsInf(y) THEN y
    ELSE LET g == GCD(x[2], y[2])
         IN  Norm(x[1] * (y[2] \div g) + y[1] * (x[2] \div g), (x[2] \div g) * y[2])

RSub(x, y) == RAdd(x, RNeg(y))

RMul(x, y) ==
    IF IsNaN(x) \/ IsNaN(y) THEN NaN
    ELSE IF IsInf(x) \/ IsInf(y)
         THEN (IF x[1] = 0 \/ y[1] = 0 THEN NaN ELSE <<Sign(x[1]) * Sign(y[1]), 0>>)
    ELSE LET g == GCD(Abs(x[1]), y[2])
             k == GCD(Abs(y[1]), x[2])
         IN  Norm((x[1] \div g) * (y[1] \div k), (x[2] \div k) * (y[2] \div g))

\* numpy float64 division: x/0 is +-inf, 0/0 is nan, no exception is raised
RDiv(x, y) ==
    IF IsNaN(x) \/ IsNaN(y) THEN NaN
    ELSE IF IsInf(y) THEN (IF IsInf(x) THEN NaN ELSE Zero)
    ELSE IF y[1] = 0 THEN (IF x[1] = 0 THEN NaN ELSE <<Sign(x[1]), 0>>)
    ELSE IF IsInf(x) THEN <<Sign(x[1]) * Sign(y[1]), 0>>
    ELSE LET g == GCD(Abs(x[1]), Abs(y[1]))
             k == GCD(x[2], y[2])
         IN  Norm((x[1] \div g) * (y[2] \div k), (x[2] \div k) * (y[1] \div g))

\* comparisons with nan are False
RLt(x, y) ==
    IF IsNaN(x) \/ IsNaN(y) THEN FALSE
    ELSE IF IsInf(x) /\ IsInf(y) THEN x[1] < y[1]
    ELSE IF IsInf(x) \/ IsInf(y) THEN x[1] * y[2] < y[1] * x[2]
    ELSE LET g == GCD(x[2], y[2])
         IN  x[1] * (y[2] \div g) < y[1] * (x[2] \div g)

RLe(x, y) ==
    IF IsNaN(x) \/ IsNaN(y) THEN FALSE
    ELSE IF IsInf(x) /\ IsInf(y) THEN x[1] <= y[1]
    ELSE IF IsInf(x) \/ IsInf(y) THEN x[1] * y[2] <= y[1] * x[2]
    ELSE LET g == GCD(x[2], y[2])
         IN  x[1] * (y[2] \div g) <= y[1] * (x[2] \div g)

RGe(x, y) == RLe(y, x)

RAbs(x) == <<Abs(x[1]), x[2]>>

(***************************************************************************)
(* Calibration constants of DischargeHaematocrit.__init__ and the fixed    *)
(* tolerances of the splitting law and of the mass-balance checker.        *)
(***************************************************************************)
x_o_init == <<28, 25>>
A_o_init == <<1547, 100>>
B_o_init == <<813, 100>>
threshold == <<99, 100>>
tollerance == <<1, 100000>>
MicroPerMetre == <<1000000, 1>>

\* flow < 1E-36: every flow of the model is a multiple of a grid step far
\* above 1E-36, so the comparison is decided by the sign alone
BelowTiny(flow) == RLe(flow, Zero)

\* non_dimentional_param: <<x_0, A, B>>
non_dimentional_param(hemat_par, diam_par, diam_a, diam_b) ==
    LET da == RMul(diam_a, MicroPerMetre)
        db == RMul(diam_b, MicroPerMetre)
        dp == RMul(diam_par, MicroPerMetre)
        oneMinus == RSub(One, hemat_par)
        x_0 == RDiv(RMul(x_o_init, oneMinus), dp)
        A == RDiv(RMul(RMul(RNeg(A_o_init),
                            RDiv(RSub(RMul(da, da), RMul(db, db)),
                                 RAdd(RMul(da, da), RMul(db, db)))),
                       oneMinus), dp)
        B == RAdd(One, RDiv(RMul(B_o_init, oneMinus), dp))
    IN  <<x_0, A, B>>

(***************************************************************************)
(* The logit-linear interpolation  e^y / (1 + e^y),  y = A + B * logit(p), *)
(* is transcendental.  The model computes it where it is rational (y = 0)  *)
(* and encloses it elsewhere: the value is some point of the open interval *)
(* (0,1), on the side of 1/2 that the signs of A and logit(p) determine    *)
(* when B > 0.  ShareDen is the resolution of the enclosure.               *)
(***************************************************************************)
ShareDen == 4

ShareGrid == {Norm(k, ShareDen) : k \in 1..(ShareDen - 1)}

Half == <<1, 2>>

\* the values fractional_qRBCa may take for internal_logit = p (lines 284-286)
LogitShares(A, B, p) ==
    LET L == Sign(p[1] * 2 - p[2])       \* sign of logit(p), 0 < p < 1
        a == Sign(A[1])
    IN  IF RGe(p, One)                   \* logit(1) = log(inf) = inf
        THEN (IF B[1] < 0 THEN {Zero} ELSE {NaN})
        ELSE IF B[1] <= 0 THEN ShareGrid
        ELSE IF a = 0 /\ L = 0 THEN {Half}
        ELSE IF a >= 0 /\ L >= 0 THEN {s \in ShareGrid : RLt(Half, s)}
        ELSE IF a <= 0 /\ L <= 0 THEN {s \in ShareGrid : RLt(s, Half)}
        ELSE ShareGrid

\* lines 280-290 with the saturated branch of daughter a tested first
SplitLawMirrorFirst(fractional_flow_a, x_0, logistic) ==
    IF RGe(fractional_flow_a, RSub(One, x_0)) THEN <<3, One, Zero>>
    ELSE IF RLt(x_0, fractional_flow_a) /\ RLt(fractional_flow_a, RSub(One, x_0))
         THEN <<2, logistic, RSub(One, logistic)>>
    ELSE IF RLe(fractional_flow_a, x_0) THEN <<1, Zero, One>>
    ELSE <<0, NaN, NaN>>

\* lines 280-290: <<region, fractional_qRBCa, fractional_qRBCb>>; region 0
\* is the case that no branch is taken (a nan comparison)
SplitLaw(fractional_flow_a, x_0, logistic) ==
    IF RLe(fractional_flow_a, x_0) THEN <<1, Zero, One>>
    ELSE IF RLt(x_0, fractional_flow_a) /\ RLt(fractional_flow_a, RSub(One, x_0))
         THEN <<2, logistic, RSub(One, logistic)>>
    ELSE IF RGe(fractional_flow_a, RSub(One, x_0)) THEN <<3, One, Zero>>
    ELSE <<0, NaN, NaN>>

\* internal_logit of line 284
InternalLogit(fractional_flow_a, x_0) ==
    RDiv(RSub(fractional_flow_a, x_0), RSub(One, x_0))

\* lines 292-301: haematocrits before the saturation clamp
PreClamp(fa, fb, qRBCp, flow_a, flow_b) ==
    IF BelowTiny(flow_a) THEN <<Zero, RDiv(RMul(fb, qRBCp), flow_b)>>
    ELSE IF BelowTiny(flow_b) THEN <<RDiv(RMul(fa, qRBCp), flow_a), Zero>>
    ELSE <<RDiv(RMul(fa, qRBCp), flow_a), RDiv(RMul(fb, qRBCp), flow_b)>>

\* lines 303-323 with the surplus taken from one daughter and not given to
\* the other
ClampOneSided(fa, fb, hemat_a, hemat_b, qRBCp, flow_a, flow_b) ==
    IF RGe(hemat_b, threshold)
    THEN <<fa, RSub(fb, RDiv(RMul(RSub(hemat_b, threshold), flow_b), qRBCp)),
           hemat_a, threshold>>
    ELSE IF RGe(hemat_a, threshold)
    THEN <<RSub(fa, RDiv(RMul(RSub(hemat_a, threshold), flow_a), qRBCp)), fb,
           threshold, hemat_b>>
    ELSE <<fa, fb, hemat_a, hemat_b>>

\* lines 303-323: <<fractional_qRBCa, fractional_qRBCb, hemat_a, hemat_b>>
Clamp(fa, fb, hemat_a, hemat_b, qRBCp, flow_a, flow_b) ==
    IF RGe(hemat_b, threshold)
    THEN LET surplus == RDiv(RMul(RSub(hemat_b, threshold), flow_b), qRBCp)
             fb2 == RSub(fb, surplus)
             fa2 == RAdd(fa, surplus)
         IN  <<fa2, fb2, RDiv(RMul(fa2, qRBCp), flow_a), RDiv(RMul(fb2, qRBCp), flow_b)>>
    ELSE IF RGe(hemat_a, threshold)
    THEN LET surplus == RDiv(RMul(RSub(hemat_a, threshold), flow_a), qRBCp)
             fb2 == RAdd(fb, surplus)
             fa2 == RSub(fa, surplus)
         IN  <<fa2, fb2, RDiv(RMul(fa2, qRBCp), flow_a), RDiv(RMul(fb2, qRBCp), flow_b)>>
    ELSE <<fa, fb, hemat_a, hemat_b>>

\* lines 325-335: the logs, the exit of line 334 and the return value.
\* status: "return", "exit" (sys.exit of line 334) or "raise" (no branch of
\* lines 280-290 assigned the shares: UnboundLocalError at line 295)
psl_result(fractional_flow_a, x_0, law, pre, cl) ==
    IF law[1] = 0
    THEN [status |-> "raise", region |-> 0, hemat_a |-> NaN, hemat_b |-> NaN,
          fractional_qRBCa |-> NaN, fractional_qRBCb |-> NaN,
          pre_a |-> NaN, pre_b |-> NaN,
          fractional_flow_a |-> fractional_flow_a, x_0 |-> x_0]
    ELSE [status |-> IF RGe(cl[3], One) \/ RGe(cl[4], One) THEN "exit" ELSE "return",
          region |-> law[1], hemat_a |-> cl[3], hemat_b |-> cl[4],
          fractional_qRBCa |-> cl[1], fractional_qRBCb |-> cl[2],
          pre_a |-> pre[1], pre_b |-> pre[2],
          fractional_flow_a |-> fractional_flow_a, x_0 |-> x_0]

\* lines 303-323 applied to the haematocrits of lines 292-301
psl_clamp(fractional_flow_a, x_0, law, pre, qRBCp, flow_a, flow_b) ==
    psl_result(fractional_flow_a, x_0, law, pre,
               Clamp(law[2], law[3], pre[1], pre[2], qRBCp, flow_a, flow_b))

\* lines 292-301 applied to the shares of lines 280-290
psl_split(fractional_flow_a, x_0, law, qRBCp, flow_a, flow_b) ==
    psl_clamp(fractional_flow_a, x_0, law,
              PreClamp(law[2], law[3], qRBCp, flow_a, flow_b), qRBCp, flow_a, flow_b)

\* lines 280-290 for the fractional flow and x_0 of lines 269-278
psl_law(fractional_flow_a, x_0, qRBCp, flow_a, flow_b, logistic) ==
    psl_split(fractional_flow_a, x_0, SplitLaw(fractional_flow_a, x_0, logistic),
              qRBCp, flow_a, flow_b)

\* get_erythrocyte_fraction; logistic is the value of the logit-linear
\* interpolation, used only in the middle region
get_erythrocyte_fraction(hemat_par, diam_par, diam_a, diam_b, flow_parent, flow_a, flow_b, logistic) ==
    psl_law(RDiv(flow_a, RAdd(flow_a, flow_b)),
            non_dimentional_param(hemat_par, diam_par, diam_a, diam_b)[1],
            RMul(hemat_par, flow_parent), flow_a, flow_b, logistic)

\* the values the interpolation may take for fractional flow ffa
LogisticsOf(ndp, ffa) ==
    IF SplitLaw(ffa, ndp[1], Half)[1] = 2
    THEN LogitShares(ndp[2], ndp[3], InternalLogit(ffa, ndp[1]))
    ELSE {Half}

\* the values the interpolation may take for the given inputs
Logistics(hemat_par, diam_par, diam_a, diam_b, flow_a, flow_b) ==
    LogisticsOf(non_dimentional_param(hemat_par, diam_par, diam_a, diam_b),
                RDiv(flow_a, RAdd(flow_a, flow_b)))

(***************************************************************************)
(* Mass-balance checker and the per-configuration handlers.                *)
(***************************************************************************)
\* the comparison with the tolerance made strict
WithinStrict(x, y) == RLt(RAbs(RSub(x, y)), tollerance)

\* np.abs(x - y) <= tollerance
Within(x, y) == RLe(RAbs(RSub(x, y)), tollerance)

\* qRCS: 0 (balanced) or 1; an argument the case does not use is passed as Zero
qRCS(case, flow_a_par, flow_b_par, flow_c_par, flow_a_d, flow_b_d, flow_c_d, hemat_a_par, hemat_b_par, hemat_c_par, hemat_a_d, hemat_b_d, hemat_c_d) ==
    LET qa == RMul(flow_a_par, hemat_a_par)
        qb == RMul(flow_b_par, hemat_b_par)
        qc == RMul(flow_c_par, hemat_c_par)
        da == RMul(flow_a_d, hemat_a_d)
        db == RMul(flow_b_d, hemat_b_d)
        dc == RMul(flow_c_d, hemat_c_d)
    IN  CASE case = 1 ->
               IF Within(flow_a_par, flow_a_d) /\ Within(qa, da) THEN 0 ELSE 1
          [] case = 2 ->
               IF Within(flow_a_par, RAdd(flow_a_d, flow_b_d))
                  /\ Within(qa, RAdd(da, db)) THEN 0 ELSE 1
          [] case = 3 ->
               IF Within(flow_a_par, RAdd(RAdd(flow_a_d, flow_b_d), flow_c_d))
                  /\ Within(qa, RAdd(RAdd(da, db), dc)) THEN 0 ELSE 1
          [] case = 4 ->
               IF Within(RAdd(flow_a_par, flow_b_par), flow_a_d)
                  /\ Within(RAdd(qa, qb), da) THEN 0 ELSE 1
          [] case = 5 ->
               IF Within(RAdd(RAdd(flow_a_par, flow_b_par), flow_c_par), flow_a_d)
                  /\ Within(RAdd(RAdd(qa, qb), qc), da) THEN 0 ELSE 1
          [] OTHER -> 1

\* hematocrit_1_1: <<hematocrit, RBCbalance>>
hematocrit_1_1(hemat_parent, flow_parent, flow_daughter) ==
    <<hemat_parent,
      qRCS(1, flow_parent, Zero, Zero, flow_daughter, Zero, Zero,
           hemat_parent, Zero, Zero, hemat_parent, Zero, Zero)>>

\* hematocrit_1_3: <<hematocrit_a, hematocrit_b, hematocrit_c, RBCbalance>>
hematocrit_1_3(flow_parent, hemat_parent, flow_daughter_a, flow_daughter_b, flow_daughter_c) ==
    <<hemat_parent, hemat_parent, hemat_parent,
      qRCS(3, flow_parent, Zero, Zero, flow_daughter_a, flow_daughter_b, flow_daughter_c,
           hemat_parent, Zero, Zero, hemat_parent, hemat_parent, hemat_parent)>>

\* hematocrit_2_1 with the flow of parent a as the weight of both parents
hematocrit_2_1_weight_a(flow_parent_a, flow_parent_b, flow_daughter, hemat_parent_a, hemat_parent_b) ==
    <<RDiv(RAdd(RMul(flow_parent_a, hemat_parent_a), RMul(flow_parent_a, hemat_parent_b)),
           RAdd(flow_parent_a, flow_parent_b)),
      qRCS(4, flow_parent_a, flow_parent_b, Zero, flow_daughter, Zero, Zero,
           hemat_parent_a, hemat_parent_b, Zero,
           RDiv(RAdd(RMul(flow_parent_a, hemat_parent_a), RMul(flow_parent_a, hemat_parent_b)),
                RAdd(flow_parent_a, flow_parent_b)), Zero, Zero)>>

\* hematocrit_2_1: <<hematocrit, RBCbalance>>
hematocrit_2_1(flow_parent_a, flow_parent_b, flow_daughter, hemat_parent_a, hemat_parent_b) ==
    LET hematocrit == RDiv(RAdd(RMul(flow_parent_a, hemat_parent_a),
                                RMul(flow_parent_b, hemat_parent_b)),
                           RAdd(flow_parent_a, flow_parent_b))
    IN  <<hematocrit,
          qRCS(4, flow_parent_a, flow_parent_b, Zero, flow_daughter, Zero, Zero,
               hemat_parent_a, hemat_parent_b, Zero, hematocrit, Zero, Zero)>>

\* hematocrit_2_2_aux: <<diameter_parent, flow_parent, hemat_parent>>
hematocrit_2_2_aux(hemat_a, hemat_b, flow_a, flow_b, diameter_a, diameter_b) ==
    <<RDiv(RAdd(diameter_a, diameter_b), <<2, 1>>),
      RAdd(flow_a, flow_b),
      RDiv(RAdd(RMul(flow_a, hemat_a), RMul(flow_b, hemat_b)), RAdd(flow_a, flow_b))>>

\* hematocrit_3_1: <<hematocrit, RBCbalance>>
hematocrit_3_1(flow_parent_a, flow_parent_b, flow_parent_c, flow_daughter, hemat_parent_a, hemat_parent_b, hemat_parent_c) ==
    LET hematocrit ==
            RDiv(RAdd(RAdd(RMul(flow_parent_a, hemat_parent_a),
                           RMul(flow_parent_b, hemat_parent_b)),
                      RMul(flow_parent_c, hemat_parent_c)),
                 RAdd(RAdd(flow_parent_a, flow_parent_b), flow_parent_c))
    IN  <<hematocrit,
          qRCS(5, flow_parent_a, flow_parent_b, flow_parent_c, flow_daughter, Zero, Zero,
               hemat_parent_a, hemat_parent_b, hemat_parent_c, hematocrit, Zero, Zero)>>

\* line 191: the RBCbalance of the law's result r
hematocrit_1_2_balance(flow_parent, hemat_parent, flow_daughter_a, flow_daughter_b, r) ==
    [psl |-> r,
     bal |-> qRCS(2, flow_parent, Zero, Zero, flow_daughter_a, flow_daughter_b, Zero,
                  hemat_parent, Zero, Zero, r.hemat_a, r.hemat_b, Zero)]

\* hematocrit_1_2: the law's result and the RBCbalance of qRCS(2, ...)
hematocrit_1_2(flow_parent, hemat_parent, flow_daughter_a, flow_daughter_b, diameter_parent, diameter_a, diameter_b, logistic) ==
    hematocrit_1_2_balance(flow_parent, hemat_parent, flow_daughter_a, flow_daughter_b,
        get_erythrocyte_fraction(hemat_parent, diameter_parent, diameter_a, diameter_b,
                                 flow_parent, flow_daughter_a, flow_daughter_b, logistic))

(***************************************************************************)
(* Networks.  A network is what update_hd reads from the flownetwork       *)
(* object: nr_of_vs, edge_list, boundary_vs, boundary_hematocrit,          *)
(* pressure, flow_rate (signed by the stored endpoint order) and diameter. *)
(* Nodes and edges are numbered from 0 as in the arrays of the program.    *)
(***************************************************************************)
Um(k) == Norm(k, 1000000)

Whole(k) == <<k, 1>>

\* ends[e] = <<upstream node, downstream node>>, mag[e] = |flow|; the edge
\* flip is stored with its endpoints swapped, so its flow rate is negative
MkNet(nv, ends, mag, diam, bvs, bh, pres, flip) ==
    [nr_of_vs |-> nv,
     nr_of_es |-> Len(ends),
     edge_list |-> [e \in 0..(Len(ends) - 1) |->
                      IF e = flip THEN <<ends[e + 1][2], ends[e + 1][1]>> ELSE ends[e + 1]],
     flow_rate |-> [e \in 0..(Len(ends) - 1) |->
                      IF e = flip THEN Whole(-mag[e + 1]) ELSE Whole(mag[e + 1])],
     diameter |-> [e \in 0..(Len(ends) - 1) |-> Um(diam[e + 1])],
     boundary_vs |-> bvs,
     boundary_hematocrit |-> bh,
     PARAMETERS_boundary_hematocrit |-> bh,
     ht |-> [e \in 0..(Len(ends) - 1) |-> <<2, 5>>],
     has_pressure |-> TRUE,
     pressure |-> [v \in 0..(nv - 1) |-> pres[v + 1]]]

\* 0 --e0--> 1 : the 2-node, 1-edge network
Pipe(flip) ==
    MkNet(2, << <<0, 1>> >>, <<1>>, <<10>>, <<0, 1>>, << <<9, 20>>, <<9, 20>> >>,
          <<2, 1>>, flip)

\* inlet 0 splits into e0 (0-1) and e1 (0-2); 1 is interior (e2: 1-2); the
\* boundary node 2 has parents e1, e2, daughter e3 (2-3) and an outflow;
\* 3 is interior (e4: 3-4); 4 is an outlet
Ladder(flip) ==
    MkNet(5, << <<0, 1>>, <<0, 2>>, <<1, 2>>, <<2, 3>>, <<3, 4>> >>,
          <<1, 3, 1, 1, 1>>, <<12, 4, 2, 10, 10>>,
          <<0, 2, 4>>, << <<1, 10>>, <<1, 10>>, <<1, 10>> >>,
          <<4, 3, 2, 1, 0>>, flip)

\* inlet 0 (e0: 0-1, e1: 0-2); boundary node 1 has parent e0, daughters e2
\* (1-3), e3 (1-4) and an outflow of 1; 2, 3, 4 are outlets
Comb(flip) ==
    MkNet(5, << <<0, 1>>, <<0, 2>>, <<1, 3>>, <<1, 4>> >>,
          <<3, 1, 1, 1>>, <<10, 10, 10, 10>>,
          <<0, 1, 2, 3, 4>>,
          << <<1, 10>>, <<1, 2>>, <<1, 10>>, <<1, 10>>, <<1, 10>> >>,
          <<4, 3, 2, 1, 0>>, flip)

\* inlet 0 (e0: 0-1, e1: 0-2); interior 1 splits into e2 (1-2) and e3 (1-3);
\* interior 2 merges e1, e2 into e4 (2-3); 3 is the outlet
Diamond(flip) ==
    MkNet(4, << <<0, 1>>, <<0, 2>>, <<1, 2>>, <<1, 3>>, <<2, 3>> >>,
          <<2, 2, 1, 1, 3>>, <<10, 10, 10, 10, 10>>,
          <<0, 3>>, << <<9, 20>>, <<9, 20>> >>,
          <<3, 2, 1, 0>>, flip)

\* the diamond with no flow in e2: nodes 1 and 2 have the same pressure
DiamondTie(flip) ==
    MkNet(4, << <<0, 1>>, <<0, 2>>, <<1, 2>>, <<1, 3>>, <<2, 3>> >>,
          <<2, 2, 0, 2, 2>>, <<10, 10, 10, 10, 10>>,
          <<0, 3>>, << <<9, 20>>, <<9, 20>> >>,
          <<3, 2, 2, 0>>, flip)

\* a flow field that violates conservation at the interior node 1
Leaky(flip) ==
    MkNet(3, << <<0, 1>>, <<0, 1>>, <<1, 2>> >>,
          <<1, 1, 3>>, <<10, 10, 10>>,
          <<0, 2>>, << <<9, 20>>, <<9, 20>> >>,
          <<2, 1, 0>>, flip)

\* inlet 0 feeds node 1 through e0 and e1; node 1 has two parents and two
\* daughters (e2: 1-2, e3: 1-3); 2 and 3 are outlets; node 4 has no edge.
\* Node 1 is an interior node
Cross(flip) ==
    MkNet(5, << <<0, 1>>, <<0, 1>>, <<1, 2>>, <<1, 3>> >>,
          <<1, 1, 1, 1>>, <<10, 10, 10, 10>>,
          <<0, 2, 3>>, << <<9, 20>>, <<9, 20>>, <<9, 20>> >>,
          <<4, 3, 2, 1, 0>>, flip)

\* the same network with node 1 a boundary node
CrossB(flip) ==
    MkNet(5, << <<0, 1>>, <<0, 1>>, <<1, 2>>, <<1, 3>> >>,
          <<1, 1, 1, 1>>, <<10, 10, 10, 10>>,
          <<0, 1, 2, 3>>, << <<9, 20>>, <<9, 20>>, <<9, 20>>, <<9, 20>> >>,
          <<4, 3, 2, 1, 0>>, flip)

\* 0 --e0--> 1 --e1--> 2 : an inlet, an interior node with one parent and
\* one daughter, an outlet
Chain(flip) ==
    MkNet(3, << <<0, 1>>, <<1, 2>> >>, <<1, 1>>, <<10, 10>>,
          <<0, 2>>, << <<9, 20>>, <<9, 20>> >>,
          <<2, 1, 0>>, flip)

\* inlet 0 (e0: 0-1, e1: 0-3); the boundary node 1 has the parent e0, which
\* carries 3, the daughter e2 (1-2), which carries 1, and an outflow of 2;
\* 2 and 3 are outlets
Tap(flip) ==
    MkNet(4, << <<0, 1>>, <<0, 3>>, <<1, 2>> >>, <<3, 1, 1>>, <<10, 10, 10>>,
          <<0, 1, 2, 3>>, << <<9, 20>>, <<9, 20>>, <<9, 20>>, <<9, 20>> >>,
          <<3, 2, 1, 0>>, flip)

\* inlet 0 feeds the boundary node 1 through four parallel edges e0..e3;
\* node 1 has the one daughter e4 (1-2); 2 is the outlet
Fan(flip) ==
    MkNet(3, << <<0, 1>>, <<0, 1>>, <<0, 1>>, <<0, 1>>, <<1, 2>> >>,
          <<1, 1, 1, 1, 4>>, <<10, 10, 10, 10, 10>>,
          <<0, 1, 2>>, << <<9, 20>>, <<9, 20>>, <<9, 20>> >>,
          <<2, 1, 0>>, flip)

\* the inlet 0 has the three daughters e0, e1, e2, all to the outlet 1
Rake(flip) ==
    MkNet(2, << <<0, 1>>, <<0, 1>>, <<0, 1>> >>, <<1, 2, 3>>, <<10, 10, 10>>,
          <<0, 1>>, << <<9, 20>>, <<9, 20>> >>,
          <<1, 0>>, flip)

\* inlet 0 with the one daughter e0 (0-1); the interior node 1 has the parent
\* e0 and the three daughters e1, e2, e3, all to the outlet 2
Trident(flip) ==
    MkNet(3, << <<0, 1>>, <<1, 2>>, <<1, 2>>, <<1, 2>> >>, <<3, 1, 1, 1>>,
          <<10, 10, 10, 10>>,
          <<0, 2>>, << <<9, 20>>, <<9, 20>> >>,
          <<2, 1, 0>>, flip)

\* inlet 0 with the daughters e0 (0-1) and e1 (0-3); the interior node 1 has
\* the parent e0 and the three daughters e2, e3 (1-2) and e4 (1-3), which
\* carry `out` in all; 2 and 3 are outlets
Delta(out, flip) ==
    MkNet(4, << <<0, 1>>, <<0, 3>>, <<1, 2>>, <<1, 2>>, <<1, 3>> >>,
          <<3, 1, 1, 1, out - 2>>, <<10, 10, 10, 10, 10>>,
          <<0, 2, 3>>, << <<9, 20>>, <<9, 20>>, <<9, 20>> >>,
          <<3, 2, 1, 0>>, flip)

NetKinds ==
    {"Pipe", "Ladder", "Comb", "Diamond", "DiamondTie", "Leaky", "Cross", "CrossB", "Chain",
     "Tap", "Fan", "Rake", "Trident", "Delta", "DeltaLeak"}

NetOf(kind, flip) ==
    CASE kind = "Pipe" -> Pipe(flip)
      [] kind = "Ladder" -> Ladder(flip)
      [] kind = "Comb" -> Comb(flip)
      [] kind = "Diamond" -> Diamond(flip)
      [] kind = "DiamondTie" -> DiamondTie(flip)
      [] kind = "Cross" -> Cross(flip)
      [] kind = "CrossB" -> CrossB(flip)
      [] kind = "Chain" -> Chain(flip)
      [] kind = "Tap" -> Tap(flip)
      [] kind = "Fan" -> Fan(flip)
      [] kind = "Rake" -> Rake(flip)
      [] kind = "Trident" -> Trident(flip)
      [] kind = "Delta" -> Delta(3, flip)
      [] kind = "DeltaLeak" -> Delta(4, flip)
      [] OTHER -> Leaky(flip)

\* the stored orientations of the model: no edge, or one edge, is stored
\* against the flow
Networks ==
    UNION {{NetOf(k, f) : f \in (-1)..(NetOf(k, -1).nr_of_es - 1)} : k \in NetKinds}

\* a network that has not been solved yet: flownetwork.pressure is None
Unsolved == [Pipe(-1) EXCEPT !.has_pressure = FALSE]

Nodes(n) == 0..(n.nr_of_vs - 1)
Edges(n) == 0..(n.nr_of_es - 1)

(***************************************************************************)
(* State.                                                                  *)
(***************************************************************************)
VARIABLES
    net,            \* the fields of flownetwork that update_hd reads
    hdKind,         \* "float64": hd is a numeric ndarray; "object": hd holds objects
    hd,             \* flownetwork.hd, the discharge haematocrit of every edge
    ordered_node,   \* the node column of the sorted pressure_node array
    idx,            \* position in ordered_node of the next node of the loop
    loc,            \* the locals of update_hd that outlive one loop iteration
    rbc_balance,    \* the imbalance counter of the pass
    passState,      \* "running", "done" or "aborted"
    abort,          \* the exception that ended the pass, or "none"
    passNo,         \* number of the pass
    written,        \* edges whose hd has been assigned in this pass
    last,           \* what the processing of the last node did, and the number of
                    \* qRCS calls of this pass that returned 1
    shares,         \* fractional_a_qRBCs / fractional_b_qRBCs, as pairs
    pslIn,          \* arguments of a direct call of get_erythrocyte_fraction
    pslOut,         \* its result
    fnIn,           \* arguments of a direct call of qRCS or of a hematocrit_* handler
    fnOut,          \* its result
    iteration,      \* flownetwork.iteration
    convergence_check,  \* flownetwork.convergence_check
    residual_berg,  \* the local residual_berg against berg_criteria: "unbound", "low", "high"
    loopState,      \* "idle", "running", "exited" or "aborted"
    outcome,        \* "none", "CONVERGED" or "CAPPED"
    entry,          \* flownetwork.iteration when _iterative_method was entered
    allLow,         \* every residual computed in this run was <= berg_criteria
    pickled,        \* the results file of the converged branch has been written
    plotted,        \* the last iteration drew the residual plots
    stage,          \* position in the loop body of the stage that runs next
    ran,            \* the stages run so far in this iteration, or in the last one
    fn_tollerance,  \* flownetwork.tollerance: "None" or "set"
    berg            \* the inputs and the result of the last berg_convergence call

passVars == <<net, hdKind, hd, ordered_node, idx, loc, rbc_balance, passState, abort,
              passNo, written, last, shares>>
pslVars == <<pslIn, pslOut, fnIn, fnOut>>
loopVars == <<iteration, convergence_check, residual_berg, loopState, outcome, entry,
              allLow, pickled, plotted>>
runVars == <<stage, ran, fn_tollerance, berg>>
vars == <<passVars, pslVars, loopVars, runVars>>

MaxPasses == 2

Unbound == -1

NoLocals ==
    [single_daughter |-> Unbound, daughter_a |-> Unbound, daughter_b |-> Unbound,
     daughter_c |-> Unbound, parent |-> Unbound, parent_a |-> Unbound,
     parent_b |-> Unbound, parent_c |-> Unbound]

NoPsl == [status |-> "none"]

NoLast ==
    [node |-> -1, boundary |-> FALSE, parent_edge |-> <<>>, edge_daughter |-> <<>>,
     n_parent |-> 0, n_daughter |-> 0, handler |-> "none", why |-> "none",
     reads |-> {}, stale |-> {}, writes |-> <<>>, qrcs |-> -1, bal |-> 0,
     qrcs_ones |-> 0, status |-> "ok", psl |-> NoPsl, args |-> <<>>]

(***************************************************************************)
(* Node ordering (lines 370-376) and the topology classifier (388-416).    *)
(***************************************************************************)
\* pressure_node[:, 0].argsort() without the reversal [::-1]
argsort_ascending(n) ==
    {s \in [1..n.nr_of_vs -> Nodes(n)] :
        /\ \A i, j \in 1..n.nr_of_vs : i # j => s[i] # s[j]
        /\ \A i \in 1..(n.nr_of_vs - 1) : n.pressure[s[i]] <= n.pressure[s[i + 1]]}

\* pressure_node[:, 0].argsort()[::-1]: the default sort of numpy is not
\* stable, so the order among equal pressures is whatever the build gives
argsort_reversed(n) ==
    {s \in [1..n.nr_of_vs -> Nodes(n)] :
        /\ \A i, j \in 1..n.nr_of_vs : i # j => s[i] # s[j]
        /\ \A i \in 1..(n.nr_of_vs - 1) : n.pressure[s[i]] >= n.pressure[s[i + 1]]}

RECURSIVE SortedSeq(_)
SortedSeq(S) ==
    IF S = {} THEN <<>>
    ELSE LET m == CHOOSE x \in S : \A y \in S : x <= y
         IN  <<m>> \o SortedSeq(S \ {m})

\* edge_connected_position
Incident(n, node) ==
    {e \in Edges(n) : n.edge_list[e][1] = node \/ n.edge_list[e][2] = node}

\* parent_edge: for every node that precedes `node` in the order, the
\* incident edges that contain it, in edge order
RECURSIVE ParentScan(_, _, _, _)
ParentScan(n, order, node, k) ==
    IF k > Len(order) \/ order[k] = node THEN <<>>
    ELSE SortedSeq({e \in Incident(n, node) :
                      order[k] = n.edge_list[e][1] \/ order[k] = n.edge_list[e][2]})
         \o ParentScan(n, order, node, k + 1)

\* the parents taken by pressure instead of by the position in the order:
\* the incident edges whose other endpoint has a strictly higher pressure
parent_edge_by_pressure(n, order, node) ==
    SortedSeq({e \in Incident(n, node) :
                 \E k \in {1, 2} : /\ n.edge_list[e][k] # node
                                   /\ n.pressure[n.edge_list[e][k]] > n.pressure[node]})

parent_edge_of(n, order, node) == ParentScan(n, order, node, 1)

Range(q) == {q[i] : i \in 1..Len(q)}

\* lines 407-409 without the test "not np.isin(element, parent_edge)"
edge_daughter_unfiltered(n, order, node) == SortedSeq(Incident(n, node))

edge_daughter_of(n, order, node) ==
    SortedSeq(Incident(n, node) \ Range(parent_edge_of(n, order, node)))

\* lines 420-446: the match statements bind the locals and count the sides;
\* a side with no edge, or with more than three, counts 0 and binds nothing
Bind(old, pe, ed) ==
    [single_daughter |-> IF Len(ed) = 1 THEN ed[1] ELSE old.single_daughter,
     daughter_a |-> IF Len(ed) \in {2, 3} THEN ed[1] ELSE old.daughter_a,
     daughter_b |-> IF Len(ed) \in {2, 3} THEN ed[2] ELSE old.daughter_b,
     daughter_c |-> IF Len(ed) = 3 THEN ed[3] ELSE old.daughter_c,
     parent |-> IF Len(pe) = 1 THEN pe[1] ELSE old.parent,
     parent_a |-> IF Len(pe) \in {2, 3} THEN pe[1] ELSE old.parent_a,
     parent_b |-> IF Len(pe) \in {2, 3} THEN pe[2] ELSE old.parent_b,
     parent_c |-> IF Len(pe) = 3 THEN pe[3] ELSE old.parent_c]

Count(q) == IF Len(q) \in 1..3 THEN Len(q) ELSE 0

IsBoundary(n, node) == \E i \in 1..Len(n.boundary_vs) : n.boundary_vs[i] = node

\* boundary_hematocrit[np.where(boundary_vs == node)[0][0]]
BoundaryHd(n, node) ==
    n.boundary_hematocrit[CHOOSE i \in 1..Len(n.boundary_vs) :
                             /\ n.boundary_vs[i] = node
                             /\ \A j \in 1..(i - 1) : n.boundary_vs[j] # node]

(***************************************************************************)
(* Dispatch (lines 448-659).  Plan names the handler a node is given, the  *)
(* edges whose hd it reads, the edges it assigns (-1: a ghost daughter,    *)
(* whose value is dropped) and the handler's arguments.                    *)
(***************************************************************************)
Fl(n, e) == RAbs(n.flow_rate[e])         \* flow = np.abs(flow_rate)

Skip(why) == [h |-> "skip", why |-> why, reads |-> {}, targets |-> <<>>, args |-> <<>>]

\* a call of hematocrit_1_2 on the averaged parent aux of hematocrit_2_2_aux
AveragedPlan(why, reads, targets, aux, flow_a, flow_b, diam_a, diam_b) ==
    [h |-> "h12", why |-> why, reads |-> reads, targets |-> targets,
     args |-> <<aux[2], aux[3], flow_a, flow_b, aux[1], diam_a, diam_b>>]

BoundaryPlan(n, h, node, L, np, nd) ==
    LET bh == BoundaryHd(n, node)
        sd == L.single_daughter
        da == L.daughter_a
        db == L.daughter_b
        dc == L.daughter_c
        pa == L.parent_a
        pb == L.parent_b
        par == L.parent
    IN  CASE np = 0 /\ nd = 1 ->
               [h |-> "b01", why |-> "inflow ghost", reads |-> {}, targets |-> <<sd>>,
                args |-> <<bh, Fl(n, sd), Fl(n, sd)>>]
          [] np \in {1, 2, 3} /\ nd = 0 -> Skip("outflow ghost")
          [] np = 0 /\ nd = 2 ->
               [h |-> "h12", why |-> "inflow ghost", reads |-> {}, targets |-> <<da, db>>,
                args |-> <<RAdd(Fl(n, da), Fl(n, db)), bh, Fl(n, da), Fl(n, db),
                           RDiv(RAdd(n.diameter[da], n.diameter[db]), <<2, 1>>),
                           n.diameter[da], n.diameter[db]>>]
          [] np = 1 /\ nd = 1 ->
               IF RLt(n.flow_rate[par], n.flow_rate[sd])
               THEN [h |-> "h21", why |-> "inflow ghost", reads |-> {par},
                     targets |-> <<sd>>,
                     args |-> <<Fl(n, par), RSub(n.flow_rate[sd], n.flow_rate[par]),
                                Fl(n, sd), h[par], bh>>]
               ELSE [h |-> "h12", why |-> "outflow ghost", reads |-> {par},
                     targets |-> <<sd, -1>>,
                     args |-> <<Fl(n, par), h[par], Fl(n, sd),
                                RSub(n.flow_rate[par], n.flow_rate[sd]),
                                n.diameter[par], n.diameter[sd], n.diameter[sd]>>]
          [] np = 2 /\ nd = 1 ->
               IF RLt(RAdd(Fl(n, pa), Fl(n, pb)), Fl(n, sd))
               THEN [h |-> "h31", why |-> "inflow ghost", reads |-> {pa, pb},
                     targets |-> <<sd>>,
                     args |-> <<Fl(n, pa), Fl(n, pb),
                                RSub(Fl(n, sd), RAdd(Fl(n, pa), Fl(n, pb))), Fl(n, sd),
                                h[pa], h[pb], bh>>]
               ELSE IF da = Unbound \/ db = Unbound
               THEN [h |-> "unbound", why |-> "outflow ghost", reads |-> {pa, pb},
                     targets |-> <<>>, args |-> <<>>]
               ELSE AveragedPlan("outflow ghost", {pa, pb}, <<da, db>>,
                                 hematocrit_2_2_aux(h[pa], h[pb], Fl(n, pa), Fl(n, pb),
                                                    n.diameter[pa], n.diameter[pb]),
                                 Fl(n, da), RSub(RAdd(Fl(n, pa), Fl(n, pb)), Fl(n, sd)),
                                 n.diameter[da], n.diameter[da])
          [] np = 0 /\ nd = 3 ->
               [h |-> "h13", why |-> "inflow ghost", reads |-> {}, targets |-> <<da, db, dc>>,
                args |-> <<RAdd(RAdd(Fl(n, da), Fl(n, db)), Fl(n, dc)), bh,
                           Fl(n, da), Fl(n, db), Fl(n, dc)>>]
          [] np = 1 /\ nd = 2 ->
               IF RLt(RAdd(Fl(n, da), Fl(n, db)), n.flow_rate[par])
               THEN [h |-> "h13", why |-> "outflow ghost", reads |-> {par},
                     targets |-> <<da, db, -1>>,
                     args |-> <<Fl(n, par), h[par], Fl(n, da), Fl(n, db),
                                RSub(Fl(n, par), RAdd(Fl(n, da), Fl(n, db)))>>]
               ELSE AveragedPlan("inflow ghost", {par}, <<da, db>>,
                                 hematocrit_2_2_aux(h[par], bh, Fl(n, par),
                                     RSub(RAdd(Fl(n, da), Fl(n, db)), Fl(n, par)),
                                     n.diameter[da], n.diameter[da]),
                                 Fl(n, da), Fl(n, db), n.diameter[da], n.diameter[db])
          [] OTHER -> Skip("unhandled")

InteriorPlan(n, h, node, L, np, nd) ==
    LET sd == L.single_daughter
        da == L.daughter_a
        db == L.daughter_b
        dc == L.daughter_c
        pa == L.parent_a
        pb == L.parent_b
        pc == L.parent_c
        par == L.parent
    IN  CASE np = 1 /\ nd = 1 ->
               [h |-> "h11", why |-> "interior", reads |-> {par}, targets |-> <<sd>>,
                args |-> <<h[par], Fl(n, par), Fl(n, sd)>>]
          [] np = 1 /\ nd = 2 ->
               [h |-> "h12", why |-> "interior", reads |-> {par}, targets |-> <<da, db>>,
                args |-> <<Fl(n, par), h[par], Fl(n, da), Fl(n, db),
                           n.diameter[par], n.diameter[da], n.diameter[db]>>]
          [] np = 1 /\ nd = 3 ->
               [h |-> "h13", why |-> "interior", reads |-> {par}, targets |-> <<da, db, dc>>,
                args |-> <<Fl(n, par), h[par], Fl(n, da), Fl(n, db), Fl(n, dc)>>]
          [] np = 2 /\ nd = 1 ->
               [h |-> "h21", why |-> "interior", reads |-> {pa, pb}, targets |-> <<sd>>,
                args |-> <<Fl(n, pa), Fl(n, pb), Fl(n, sd), h[pa], h[pb]>>]
          [] np = 2 /\ nd = 2 ->
               AveragedPlan("interior", {pa, pb}, <<da, db>>,
                            hematocrit_2_2_aux(h[pa], h[pb], Fl(n, pa), Fl(n, pb),
                                               n.diameter[da], n.diameter[db]),
                            Fl(n, da), Fl(n, db), n.diameter[da], n.diameter[db])
          [] np = 3 /\ nd = 1 ->
               [h |-> "h31", why |-> "interior", reads |-> {pa, pb, pc}, targets |-> <<sd>>,
                args |-> <<Fl(n, pa), Fl(n, pb), Fl(n, pc), Fl(n, sd), h[pa], h[pb], h[pc]>>]
          [] np = 0 -> Skip("no parent")
          [] OTHER -> Skip("unhandled")

\* the dispatch without the test of line 449: every node is given the
\* handlers of the interior nodes
PlanAsInterior(n, h, node, L, np, nd) == InteriorPlan(n, h, node, L, np, nd)

Plan(n, h, node, L, np, nd) ==
    IF IsBoundary(n, node) THEN BoundaryPlan(n, h, node, L, np, nd)
    ELSE InteriorPlan(n, h, node, L, np, nd)

\* the values the interpolation may take in the handler of a plan
PlanLogistics(pl) ==
    IF pl.h = "h12"
    THEN Logistics(pl.args[2], pl.args[5], pl.args[6], pl.args[7], pl.args[3], pl.args[4])
    ELSE {Half}

Ok(ws, q, b, r) == [status |-> "ok", kind |-> "none", writes |-> ws, qrcs |-> q, bal |-> b, psl |-> r]

Raise(kind, r) == [status |-> "raise", kind |-> kind, writes |-> <<>>, qrcs |-> -1, bal |-> 0, psl |-> r]

Pair(targets, vals) == [i \in 1..Len(targets) |-> <<targets[i], vals[i]>>]

\* a handler that is handed a sequence instead of a number (object hd only):
\* the law fails on it; the averaging handlers carry it along until qRCS
\* takes the truth value of an array
SeqOutcome(pl) ==
    LET a == pl.args
        flowsOk ==
            CASE pl.h = "h11" -> Within(a[2], a[3])
              [] pl.h = "h13" -> Within(a[1], RAdd(RAdd(a[3], a[4]), a[5]))
              [] pl.h = "h21" -> Within(RAdd(a[1], a[2]), a[3])
              [] pl.h = "h31" -> Within(RAdd(RAdd(a[1], a[2]), a[3]), a[4])
              [] OTHER -> TRUE
    IN  IF pl.h = "h12" \/ flowsOk THEN Raise("ValueError", NoPsl)
        ELSE Ok(Pair(pl.targets, [i \in 1..Len(pl.targets) |-> SeqVal]), 1, 1, NoPsl)

\* the assignment of a handler's single haematocrit with the returned
\* counter left unassigned, as in line 457
AssignOneDropped(pl, r) == Ok(Pair(pl.targets, <<r[1]>>), r[2], 0, NoPsl)

\* the assignment of a handler's single haematocrit r[1] and its RBCbalance r[2]
AssignOne(pl, r) == Ok(Pair(pl.targets, <<r[1]>>), r[2], r[2], NoPsl)

\* the assignment of the three haematocrits of hematocrit_1_3
AssignThree(pl, r) == Ok(Pair(pl.targets, <<r[1], r[2], r[3]>>), r[4], r[4], NoPsl)

\* the assignment of the two haematocrits of hematocrit_1_2, or its failure
AssignTwo(pl, r) ==
    IF r.psl.status = "return"
    THEN Ok(Pair(pl.targets, <<r.psl.hemat_a, r.psl.hemat_b>>), r.bal, r.bal, r.psl)
    ELSE IF r.psl.status = "exit"
    THEN [status |-> "exit", kind |-> "SystemExit", writes |-> <<>>,
          qrcs |-> -1, bal |-> 0, psl |-> r.psl]
    ELSE Raise("UnboundLocalError", r.psl)

\* what the handler of a plan does: the assignments to hd, in order, the
\* result of its qRCS call (-1: none) and what it adds to rbc_balance
Outcome(pl, h, kind, logistic) ==
    LET a == pl.args
    IN  CASE pl.h = "skip" -> Ok(<<>>, -1, 0, NoPsl)
          [] pl.h = "unbound" -> Raise("UnboundLocalError", NoPsl)
          [] pl.h = "b01" ->
               \* line 457: the pair returned by hematocrit_1_1 is assigned to
               \* hd[single_daughter] whole; rbc_balance is not updated
               IF kind = "float64" THEN Raise("ValueError", NoPsl)
               ELSE Ok(<< <<pl.targets[1], SeqVal>> >>,
                       hematocrit_1_1(a[1], a[2], a[3])[2], 0, NoPsl)
          [] \E e \in pl.reads : IsSeq(h[e]) -> SeqOutcome(pl)
          [] pl.h = "h11" -> AssignOne(pl, hematocrit_1_1(a[1], a[2], a[3]))
          [] pl.h = "h13" -> AssignThree(pl, hematocrit_1_3(a[1], a[2], a[3], a[4], a[5]))
          [] pl.h = "h21" -> AssignOne(pl, hematocrit_2_1(a[1], a[2], a[3], a[4], a[5]))
          [] pl.h = "h31" ->
               AssignOne(pl, hematocrit_3_1(a[1], a[2], a[3], a[4], a[5], a[6], a[7]))
          [] OTHER ->
               AssignTwo(pl, hematocrit_1_2(a[1], a[2], a[3], a[4], a[5], a[6], a[7], logistic))

\* the assignments of a handler applied to hd, in order
RECURSIVE Assign(_, _)
Assign(h, ws) ==
    IF ws = <<>> THEN h
    ELSE Assign(IF Head(ws)[1] = -1 THEN h ELSE [h EXCEPT ![Head(ws)[1]] = Head(ws)[2]],
                Tail(ws))

Targets(ws) == {ws[i][1] : i \in 1..Len(ws)} \ {-1}

(***************************************************************************)
(* update_hd, one loop iteration (one node) per step.                      *)
(***************************************************************************)
InitHd == <<9, 20>>

PslIdle == [status |-> "idle"]

\* no handler is called on its own
FnIdle == fnIn = [fn |-> "none"] /\ fnOut = [status |-> "idle"]

\* _iterative_method has not been called
LoopIdle ==
    /\ iteration = 0
    /\ convergence_check = FALSE
    /\ residual_berg = "unbound"
    /\ loopState = "idle"
    /\ outcome = "none"
    /\ entry = 0
    /\ allLow = TRUE
    /\ pickled = FALSE
    /\ plotted = FALSE

\* no loop body is being followed stage by stage
NoBerg == [residual |-> "none"]

RunIdle ==
    /\ stage = 0
    /\ ran = <<>>
    /\ fn_tollerance = "None"
    /\ berg = NoBerg

Init ==
    /\ net \in Networks \cup {Unsolved}
    /\ hdKind \in {"float64", "object"}
    /\ hd = [e \in Edges(net) |-> InitHd]
    /\ ordered_node \in argsort_reversed(net)
    /\ idx = 1
    /\ loc = NoLocals
    /\ rbc_balance = 0
    /\ passState = "running"
    /\ abort = "none"
    /\ passNo = 1
    /\ written = {}
    /\ last = NoLast
    /\ shares = <<>>
    /\ pslIn = PslIdle
    /\ pslOut = PslIdle
    /\ FnIdle
    /\ LoopIdle
    /\ RunIdle

\* the effect of one loop iteration, given the classification of the node,
\* the plan and the outcome of its handler
Effect(node, pe, ed, L, pl, out) ==
    /\ loc' = L
    /\ hd' = Assign(hd, out.writes)
    /\ written' = written \cup Targets(out.writes)
    /\ rbc_balance' = rbc_balance + out.bal
    /\ shares' = IF out.psl.status \in {"return", "exit"}
                 THEN Append(shares, <<out.psl.fractional_qRBCa, out.psl.fractional_qRBCb>>)
                 ELSE shares
    /\ passState' = IF out.status = "ok" THEN "running" ELSE "aborted"
    /\ abort' = out.kind
    /\ idx' = IF out.status = "ok" THEN idx + 1 ELSE idx
    /\ last' = [node |-> node, boundary |-> IsBoundary(net, node),
                parent_edge |-> pe, edge_daughter |-> ed,
                n_parent |-> Count(pe), n_daughter |-> Count(ed),
                handler |-> pl.h, why |-> pl.why,
                reads |-> pl.reads, stale |-> pl.reads \ written,
                writes |-> out.writes, qrcs |-> out.qrcs, bal |-> out.bal,
                qrcs_ones |-> last.qrcs_ones + (IF out.qrcs = 1 THEN 1 ELSE 0),
                status |-> out.status, psl |-> out.psl, args |-> pl.args]

Handle(node, pe, ed, L, pl) ==
    \E logistic \in PlanLogistics(pl) :
        Effect(node, pe, ed, L, pl, Outcome(pl, hd, hdKind, logistic))

Dispatch(node, pe, ed, L) ==
    Handle(node, pe, ed, L, Plan(net, hd, node, L, Count(pe), Count(ed)))

Classify(node, pe, ed) == Dispatch(node, pe, ed, Bind(loc, pe, ed))

\* lines 378-659 for the node ordered_node[idx]
ProcessNode ==
    /\ passState = "running"
    /\ net.has_pressure
    /\ idx <= net.nr_of_vs
    /\ Classify(ordered_node[idx],
                parent_edge_of(net, ordered_node, ordered_node[idx]),
                edge_daughter_of(net, ordered_node, ordered_node[idx]))
    /\ UNCHANGED <<net, hdKind, ordered_node, passNo, pslVars, loopVars, runVars>>

\* lines 661-665: sys.exit is called with two arguments, which is a TypeError
FinishPass ==
    /\ passState = "running"
    /\ net.has_pressure
    /\ idx = net.nr_of_vs + 1
    /\ passState' = IF rbc_balance > 0 THEN "aborted" ELSE "done"
    /\ abort' = IF rbc_balance > 0 THEN "TypeError" ELSE "none"
    /\ UNCHANGED <<net, hdKind, hd, ordered_node, idx, loc, rbc_balance, passNo,
                   written, last, shares, pslVars, loopVars, runVars>>

\* lines 341-367 with the fields of the network stored by mistake: the
\* magnitudes of line 367 written back to flownetwork.flow_rate
entry_fields_abs_stored(n) ==
    [n EXCEPT !.boundary_hematocrit = n.PARAMETERS_boundary_hematocrit,
              !.flow_rate = [e \in Edges(n) |-> RAbs(n.flow_rate[e])]]

\* lines 341-367: the fields of the network after the entry of update_hd.
\* boundary_hematocrit is bound to the configured value; diameter, pressure,
\* nr_of_vs, edge_list and flow_rate are only copied
entry_fields(n) ==
    [n EXCEPT !.boundary_hematocrit = n.PARAMETERS_boundary_hematocrit]

\* lines 341-376: the entry of update_hd up to the loop over the nodes
EnterPass ==
    /\ net' = entry_fields(net)
    /\ passNo' = passNo + 1
    /\ passState' = "running"
    /\ idx' = 1
    /\ loc' = NoLocals
    /\ rbc_balance' = 0
    /\ written' = {}
    /\ last' = NoLast
    /\ shares' = <<>>
    /\ UNCHANGED <<hdKind, hd, ordered_node, abort>>

\* the next call of update_hd on the same network
StartPass ==
    /\ passState = "done"
    /\ passNo < MaxPasses
    /\ EnterPass
    /\ UNCHANGED <<pslVars, loopVars, runVars>>

\* lines 365-366: without a pressure field the pass copies the tube
\* haematocrit and returns
CopyHt ==
    /\ passState = "running"
    /\ ~net.has_pressure
    /\ hd' = net.ht
    /\ written' = Edges(net)
    /\ passState' = "done"
    /\ UNCHANGED <<net, hdKind, ordered_node, idx, loc, rbc_balance, abort, passNo,
                   last, shares, pslVars, loopVars, runVars>>

Next == ProcessNode \/ FinishPass \/ CopyHt \/ StartPass

Spec == Init /\ [][Next]_vars

(***************************************************************************)
(* get_erythrocyte_fraction called on its own, over a grid of arguments.   *)
(***************************************************************************)
HematGrid == {Zero, <<1, 10>>, <<1, 2>>, <<99, 100>>, <<199, 200>>}
FlowGrid == {Zero, Whole(1), Whole(3)}
ParentDiamGrid == {Um(1), Um(10)}
DaughterDiamGrid == {Um(4), Um(12)}

IdlePass ==
    /\ net = Pipe(-1)
    /\ hdKind = "float64"
    /\ hd = [e \in Edges(net) |-> InitHd]
    /\ ordered_node = <<0, 1>>
    /\ idx = 1
    /\ loc = NoLocals
    /\ rbc_balance = 0
    /\ passState = "idle"
    /\ abort = "none"
    /\ passNo = 0
    /\ written = {}
    /\ last = NoLast
    /\ shares = <<>>

InitPSL ==
    /\ IdlePass
    /\ LoopIdle
    /\ RunIdle
    /\ pslOut = PslIdle
    /\ FnIdle
    /\ \E hp \in HematGrid, dp \in ParentDiamGrid, da, db \in DaughterDiamGrid,
          fa, fb \in FlowGrid, extra \in {Zero, Whole(1)} :
         pslIn = [status |-> "ready", hemat_par |-> hp, diam_par |-> dp,
                  diam_a |-> da, diam_b |-> db,
                  flow_parent |-> RAdd(RAdd(fa, fb), extra), flow_a |-> fa, flow_b |-> fb]

CallPSL ==
    /\ pslIn.status = "ready"
    /\ pslOut = PslIdle
    /\ \E logistic \in Logistics(pslIn.hemat_par, pslIn.diam_par, pslIn.diam_a,
                                 pslIn.diam_b, pslIn.flow_a, pslIn.flow_b) :
         pslOut' = get_erythrocyte_fraction(pslIn.hemat_par, pslIn.diam_par, pslIn.diam_a,
                                            pslIn.diam_b, pslIn.flow_parent, pslIn.flow_a,
                                            pslIn.flow_b, logistic)
    /\ UNCHANGED <<passVars, pslIn, fnIn, fnOut, loopVars, runVars>>

NextPSL == CallPSL

SpecPSL == InitPSL /\ [][NextPSL]_vars

(***************************************************************************)
(* qRCS and the averaging and pass-through handlers called on their own,   *)
(* over grids of flows and haematocrits that lie on both sides of the      *)
(* tolerance.  An argument a call does not use (None) is Zero.             *)
(***************************************************************************)
FlowGridQ == {Zero, <<1, 2>>, <<50001, 100000>>, Whole(1)}
FlowGridC == {Zero, <<1, 2>>}
FlowGridW == {Zero, <<1, 2>>, Whole(1), Whole(2)}
FlowGridNear == {<<1, 2>>, <<50001, 100000>>, Whole(1), <<100001, 100000>>, <<50001, 50000>>}
HematGridQ == {<<2, 5>>, Half, <<3, 5>>}
HematGridC == {<<2, 5>>, <<3, 5>>}

\* the triples <<a, b, c>> of a side with k vessels
Side(k, AB, C) ==
    CASE k = 1 -> {<<a, Zero, Zero>> : a \in AB}
      [] k = 2 -> {<<a, b, Zero>> : a, b \in AB}
      [] OTHER -> {<<a, b, c>> : a, b \in AB, c \in C}

\* the numbers of parents and daughters the callers of qRCS pass with a case
\* (lines 201, 208, 221, 238, 250)
CaseShape(case) ==
    CASE case = 1 -> <<1, 1>>
      [] case = 2 -> <<1, 2>>
      [] case = 3 -> <<1, 3>>
      [] case = 4 -> <<2, 1>>
      [] OTHER -> <<3, 1>>

QrcsCalls ==
    UNION {[fn : {"qRCS"}, case : {c},
            pf : Side(CaseShape(c)[1], FlowGridQ, FlowGridC),
            df : Side(CaseShape(c)[2], FlowGridQ, FlowGridC),
            ph : Side(CaseShape(c)[1], HematGridQ, HematGridC),
            dh : Side(CaseShape(c)[2], HematGridQ, HematGridC)] : c \in 1..5}

ConfluenceCalls ==
    [fn : {"hematocrit_2_1"}, case : {4},
     pf : Side(2, FlowGridW, FlowGridC),
     df : Side(1, FlowGridW \cup {<<100001, 100000>>, <<3, 2>>}, FlowGridC),
     ph : Side(2, HematGridQ, HematGridC), dh : {<<Zero, Zero, Zero>>}]
    \cup
    [fn : {"hematocrit_3_1"}, case : {5},
     pf : Side(3, FlowGridW, FlowGridC),
     df : Side(1, FlowGridW \cup {<<100001, 100000>>, <<3, 2>>}, FlowGridC),
     ph : Side(3, HematGridQ, HematGridC), dh : {<<Zero, Zero, Zero>>}]

PassThroughCalls ==
    [fn : {"hematocrit_1_1"}, case : {1},
     pf : Side(1, FlowGridNear, FlowGridC), df : Side(1, FlowGridNear, FlowGridC),
     ph : Side(1, HematGridQ \cup {Zero, threshold}, HematGridC),
     dh : {<<Zero, Zero, Zero>>}]

InitFn ==
    /\ IdlePass
    /\ LoopIdle
    /\ RunIdle
    /\ pslIn = PslIdle
    /\ pslOut = PslIdle
    /\ fnIn \in QrcsCalls \cup ConfluenceCalls \cup PassThroughCalls
    /\ fnOut = [status |-> "idle"]

\* the value the called function returns
Apply(in) ==
    CASE in.fn = "qRCS" ->
           qRCS(in.case, in.pf[1], in.pf[2], in.pf[3], in.df[1], in.df[2], in.df[3],
                in.ph[1], in.ph[2], in.ph[3], in.dh[1], in.dh[2], in.dh[3])
      [] in.fn = "hematocrit_1_1" -> hematocrit_1_1(in.ph[1], in.pf[1], in.df[1])
      [] in.fn = "hematocrit_2_1" ->
           hematocrit_2_1(in.pf[1], in.pf[2], in.df[1], in.ph[1], in.ph[2])
      [] OTHER ->
           hematocrit_3_1(in.pf[1], in.pf[2], in.pf[3], in.df[1],
                          in.ph[1], in.ph[2], in.ph[3])

CallFn ==
    /\ fnIn.fn # "none"
    /\ fnOut.status = "idle"
    /\ fnOut' = [status |-> "return", value |-> Apply(fnIn)]
    /\ UNCHANGED <<passVars, pslIn, pslOut, fnIn, loopVars, runVars>>

NextFn == CallFn

SpecFn == InitFn /\ [][NextFn]_vars

(***************************************************************************)
(* The outer loop of IterativeRoutineMultipleIteration._iterative_method,  *)
(* one loop iteration per step.  The residual of berg_convergence enters   *)
(* only through its comparison with berg_criteria.                         *)
(***************************************************************************)
berg_warmup == 2000         \* line 185: flownetwork.iteration > 2000

max_iteration == 2000       \* line 384: flownetwork.iteration == 2000

plot_every == 25            \* line 152: flownetwork.iteration % 25 == 0

\* the loop compares the counter with 1, 2 and 2000 and takes it modulo 25:
\* beyond 2000 a counter stands for every counter 25 further on
Fold(i) == IF i > max_iteration + plot_every THEN i - plot_every ELSE i

EntryIterations == {0, 1, max_iteration - 1, max_iteration, max_iteration + 1}

InitLoop ==
    /\ IdlePass
    /\ RunIdle
    /\ pslIn = PslIdle
    /\ pslOut = PslIdle
    /\ FnIdle
    /\ iteration \in EntryIterations
    /\ entry = iteration
    /\ convergence_check = FALSE
    /\ residual_berg = "unbound"
    /\ loopState = "running"
    /\ outcome = "none"
    /\ allLow = TRUE
    /\ pickled = FALSE
    /\ plotted = FALSE

\* the exit tests with the convergence test open from the third iteration on
Decide_converges_early(it, res, computed) ==
    /\ iteration' = Fold(it)
    /\ residual_berg' = res
    /\ allLow' = (allLow /\ (~computed \/ res = "low"))
    /\ plotted' = (it % plot_every = 0 /\ it > 1)
    /\ IF it > 2 /\ res = "low"
       THEN convergence_check' = TRUE /\ outcome' = "CONVERGED" /\ pickled' = TRUE
            /\ loopState' = "exited"
       ELSE IF it = max_iteration
       THEN convergence_check' = TRUE /\ outcome' = "CAPPED" /\ pickled' = pickled
            /\ loopState' = "exited"
       ELSE convergence_check' = FALSE /\ outcome' = outcome /\ pickled' = pickled
            /\ loopState' = "running"

\* lines 185-387: the exit tests of an iteration that ends with counter it
\* and residual res
Decide(it, res, computed) ==
    /\ iteration' = Fold(it)
    /\ residual_berg' = res
    /\ allLow' = (allLow /\ (~computed \/ res = "low"))
    /\ plotted' = (it % plot_every = 0 /\ it > 1)
    /\ IF it > 2 /\ res = "low" /\ it > berg_warmup
       THEN convergence_check' = TRUE /\ outcome' = "CONVERGED" /\ pickled' = TRUE
            /\ loopState' = "exited"
       ELSE IF it = max_iteration
       THEN convergence_check' = TRUE /\ outcome' = "CAPPED" /\ pickled' = pickled
            /\ loopState' = "exited"
       ELSE convergence_check' = FALSE /\ outcome' = outcome /\ pickled' = pickled
            /\ loopState' = "running"

\* lines 131-387: one iteration of the while loop whose iterative_routine
\* returns; r is what berg_convergence returns, compared with berg_criteria
Iterate ==
    /\ loopState = "running"
    /\ convergence_check = FALSE
    /\ \E r \in {"low", "high"} :
         IF iteration + 1 = 1
         THEN Decide(iteration + 1, residual_berg, FALSE)
         ELSE Decide(iteration + 1, r, TRUE)
    /\ UNCHANGED <<passVars, pslVars, entry, runVars>>

\* an iteration whose iterative_routine ends in sys.exit (check_flow_balance)
RoutineExit ==
    /\ loopState = "running"
    /\ convergence_check = FALSE
    /\ loopState' = "aborted"
    /\ UNCHANGED <<passVars, pslVars, iteration, convergence_check, residual_berg,
                   outcome, entry, allLow, pickled, plotted, runVars>>

NextLoop == Iterate \/ RoutineExit

SpecLoop == InitLoop /\ [][NextLoop]_vars

\* the while loop goes on as long as its condition holds
SpecLoopFair == InitLoop /\ [][NextLoop]_vars /\ WF_vars(Iterate)

(***************************************************************************)
(* The loop body stage by stage: iterative_routine (iterative.py 51-62),   *)
(* the haematocrit update inside it, check_flow_balance (flow_balance.py   *)
(* 28-59) and the bookkeeping of the loop (iterative.py 135-387).          *)
(***************************************************************************)
\* the calls of iterative_routine in the order of lines 57-62, with the
\* velocity update before the solve
iterative_routine_velocity_first ==
    <<"update_transmissibility", "build_linear_system", "update_velocity",
      "update_pressure_flow", "check_flow_balance">>

\* the calls of iterative_routine, lines 57-62
iterative_routine ==
    <<"update_transmissibility", "build_linear_system", "update_pressure_flow",
      "update_velocity", "check_flow_balance">>

\* the call of update_hd is made by code that is not in these files: it is
\* placed where the description of the loop puts it, after the velocity update
update_hd_follows == "update_velocity"

\* the stages of the loop body in the order they run
Stages ==
    LET k == CHOOSE i \in 1..Len(iterative_routine) :
                 iterative_routine[i] = update_hd_follows
    IN  SubSeq(iterative_routine, 1, k) \o <<"update_hd">>
        \o SubSeq(iterative_routine, k + 1, Len(iterative_routine))

\* the stages whose code is outside these files: they are followed only as
\* calls that return
ExternalStages ==
    {"update_transmissibility", "build_linear_system", "update_pressure_flow",
     "update_velocity"}

MaxRunIterations == 3

RunEntries == {0, max_iteration - 2, max_iteration}

\* a diamond whose outlet edge carries 5e-6 more than its node receives
Seep ==
    [Diamond(-1) EXCEPT
        !.flow_rate = [e \in 0..4 |->
                         <<<<1, 5>>, <<1, 5>>, <<1, 10>>, <<1, 10>>, <<60001, 200000>>>>[e + 1]]]

\* an inlet with two daughters whose boundary haematocrit, 0.996, is above
\* the saturation threshold: the split leaves daughter a at 1.002
Packed ==
    MkNet(3, << <<0, 1>>, <<0, 2>> >>, <<1, 1>>, <<10, 10>>,
          <<0, 1, 2>>, << <<249, 250>>, <<1, 10>>, <<1, 10>> >>,
          <<2, 1, 0>>, -1)

\* a balanced diamond whose cross edge, which carries no flow, is edge 0:
\* e0 (1-2), e1 (0-1), e2 (0-2), e3 (1-3), e4 (2-3); boundary_vs[0] = 0
Still ==
    MkNet(4, << <<1, 2>>, <<0, 1>>, <<0, 2>>, <<1, 3>>, <<2, 3>> >>,
          <<0, 2, 2, 2, 2>>, <<10, 10, 10, 10, 10>>,
          <<0, 3>>, << <<9, 20>>, <<9, 20>> >>,
          <<3, 2, 1, 0>>, -1)

RunNetworks == {Pipe(-1), Ladder(-1), Comb(0), Diamond(-1), Leaky(-1), Seep, Packed, Still}

InitRun ==
    /\ net \in RunNetworks
    /\ hdKind \in {"float64", "object"}
    /\ hd = [e \in Edges(net) |-> InitHd]
    /\ ordered_node \in argsort_reversed(net)
    /\ idx = 1
    /\ loc = NoLocals
    /\ rbc_balance = 0
    /\ passState = "idle"
    /\ abort = "none"
    /\ passNo = 0
    /\ written = {}
    /\ last = NoLast
    /\ shares = <<>>
    /\ pslIn = PslIdle
    /\ pslOut = PslIdle
    /\ FnIdle
    /\ iteration \in RunEntries
    /\ entry = iteration
    /\ convergence_check = FALSE
    /\ residual_berg = "unbound"
    /\ loopState = "running"
    /\ outcome = "none"
    /\ allLow = TRUE
    /\ pickled = FALSE
    /\ plotted = FALSE
    /\ stage = 1
    /\ ran = <<>>
    /\ fn_tollerance = IF iteration = 0 THEN "None" ELSE "set"
    /\ berg = NoBerg

\* the loop is about to run the stage `name`
InStage(name) ==
    /\ loopState = "running"
    /\ stage \in 1..Len(Stages)
    /\ Stages[stage] = name
    /\ (stage = 1 => iteration - entry < MaxRunIterations)

\* the record of the stages of this iteration with `name` added
Ran(name) == Append(IF stage = 1 THEN <<>> ELSE ran, name)

\* a stage of iterative_routine whose code is outside these files returns
ExternalStage ==
    /\ \E name \in ExternalStages : InStage(name) /\ ran' = Ran(name)
    /\ stage' = stage + 1
    /\ UNCHANGED <<passVars, pslVars, loopVars, fn_tollerance, berg>>

\* update_hd is called
CallUpdateHd ==
    /\ InStage("update_hd")
    /\ passState \in {"idle", "returned"}
    /\ EnterPass
    /\ ran' = Ran("update_hd")
    /\ UNCHANGED <<pslVars, loopVars, stage, fn_tollerance, berg>>

\* update_hd returns
ReturnUpdateHd ==
    /\ InStage("update_hd")
    /\ passState = "done"
    /\ passState' = "returned"
    /\ stage' = stage + 1
    /\ UNCHANGED <<net, hdKind, hd, ordered_node, idx, loc, rbc_balance, abort, passNo,
                   written, last, shares, pslVars, loopVars, ran, fn_tollerance,
                   berg>>

\* the exception that ended update_hd leaves the loop: nothing catches it
PropagateExit ==
    /\ loopState = "running"
    /\ passState = "aborted"
    /\ loopState' = "aborted"
    /\ UNCHANGED <<passVars, pslVars, iteration, convergence_check, residual_berg,
                   outcome, entry, allLow, pickled, plotted, runVars>>

\* flow_balance.py 19-26: _get_flow_balance for one node
RECURSIVE BalanceScan(_, _, _)
BalanceScan(n, v, eid) ==
    IF eid = n.nr_of_es THEN Zero
    ELSE RAdd(RAdd(IF n.edge_list[eid][1] = v THEN n.flow_rate[eid] ELSE Zero,
                   IF n.edge_list[eid][2] = v THEN RNeg(n.flow_rate[eid]) ELSE Zero),
              BalanceScan(n, v, eid + 1))

get_flow_balance(n) == [v \in Nodes(n) |-> BalanceScan(n, v, 0)]

\* tol * np.abs(flow_rate[boundary_vs[0]]): a node id indexes the edge array
tol_flow(n) == RMul(<<1, 100000>>, RAbs(n.flow_rate[n.boundary_vs[1]]))

\* np.sum(flow_balance[boundary_vs])
RECURSIVE SumAt(_, _)
SumAt(f, q) == IF q = <<>> THEN Zero ELSE RAdd(f[Head(q)], SumAt(f, Tail(q)))

\* lines 39-57 on the balances fb and the tolerance tf
flow_check(n, cached, fb, tf) ==
    IF cached = "None" THEN "cached"
    ELSE IF \E v \in Nodes(n) : ~IsBoundary(n, v) /\ ~RLt(RAbs(fb[v]), tf)
    THEN "exit local"
    ELSE IF ~RLt(RAbs(SumAt(fb, n.boundary_vs)), tf) THEN "exit global"
    ELSE "balanced"

\* flow_balance.py 28-59
check_flow_balance(n, cached) ==
    IF n.boundary_vs[1] \notin Edges(n) THEN "IndexError"
    ELSE flow_check(n, cached, get_flow_balance(n), tol_flow(n))

FlowChecked(r) ==
    /\ fn_tollerance' = "set"
    /\ ran' = Ran("check_flow_balance")
    /\ stage' = IF r \in {"cached", "balanced"} THEN stage + 1 ELSE stage
    /\ loopState' = IF r \in {"cached", "balanced"} THEN loopState ELSE "aborted"

\* check_flow_balance is called: it returns, or ends the process
CheckFlowBalance ==
    /\ InStage("check_flow_balance")
    /\ FlowChecked(check_flow_balance(net, fn_tollerance))
    /\ UNCHANGED <<passVars, pslVars, iteration, convergence_check, residual_berg,
                   outcome, entry, allLow, pickled, plotted, berg>>

\* sum(abs(flownetwork.local_balance_rbc))
RECURSIVE SumAbs(_)
SumAbs(q) == IF q = <<>> THEN Zero ELSE RAdd(RAbs(Head(q)), SumAbs(Tail(q)))

\* berg_convergence with the two parts of the first term added
berg_convergence_parts_added(boundary_hematocrit, inflow, local_balance_rbc, pressure_criteria, flow_criteria, hd_criteria) ==
    RAdd(RAdd(RDiv(One, RMul(boundary_hematocrit, inflow)), SumAbs(local_balance_rbc)),
         RAdd(RAdd(pressure_criteria, flow_criteria), hd_criteria))

\* iterative.py 80-103: the residual that berg_convergence returns
berg_convergence(boundary_hematocrit, inflow, local_balance_rbc, pressure_criteria, flow_criteria, hd_criteria) ==
    RAdd(RMul(RDiv(One, RMul(boundary_hematocrit, inflow)), SumAbs(local_balance_rbc)),
         RAdd(RAdd(pressure_criteria, flow_criteria), hd_criteria))

\* flownetwork.berg_criteria, the threshold of line 185
berg_criteria == Half

\* the values berg_convergence reads from the network: the boundary
\* haematocrit, the inflow, the local RBC imbalances of the interior nodes
\* and the change criteria of pressure, flow and haematocrit
BergInputs ==
    [boundary_hematocrit : {<<9, 20>>},
     inflow : {Whole(1), Whole(2)},
     local_balance_rbc : {<<Zero, Zero>>, << <<1, 10>>, <<-1, 10>> >>},
     criteria : {<<Zero, Zero, Zero>>, << <<1, 4>>, <<1, 4>>, <<1, 2>> >>}]

\* lines 146 and 185: the residual is bound and compared with berg_criteria
ResidualBound(in, residual) ==
    /\ berg' = [boundary_hematocrit |-> in.boundary_hematocrit, inflow |-> in.inflow,
                local_balance_rbc |-> in.local_balance_rbc, criteria |-> in.criteria,
                residual |-> residual]
    /\ Decide(iteration + 1, IF RLe(residual, berg_criteria) THEN "low" ELSE "high", TRUE)

\* iterative.py 135-387: the counter, the residual and the exit tests
EndIteration ==
    /\ loopState = "running"
    /\ stage = Len(Stages) + 1
    /\ IF iteration + 1 = 1
       THEN Decide(iteration + 1, residual_berg, FALSE) /\ berg' = NoBerg
       ELSE \E in \in BergInputs :
              ResidualBound(in, berg_convergence(in.boundary_hematocrit, in.inflow,
                                                 in.local_balance_rbc, in.criteria[1],
                                                 in.criteria[2], in.criteria[3]))
    /\ ran' = IF iteration + 1 = 1 THEN ran ELSE Append(ran, "berg_convergence")
    /\ stage' = IF loopState' = "running" THEN 1 ELSE 0
    /\ UNCHANGED <<passVars, pslVars, entry, fn_tollerance>>

NextRun ==
    \/ ExternalStage
    \/ CallUpdateHd
    \/ ProcessNode
    \/ FinishPass
    \/ ReturnUpdateHd
    \/ PropagateExit
    \/ CheckFlowBalance
    \/ EndIteration

SpecRun == InitRun /\ [][NextRun]_vars

(***************************************************************************)
(* Properties of the node order and of the update pass.                    *)
(***************************************************************************)
\* the nodes processed so far in this pass, in the order of processing
Processed == [i \in 1..(idx - 1) |-> ordered_node[i]]

C2_ParentsAssignedThisPass == last.stale = {}

\* a single number in [0, 1)
InUnitRange(x) == IsFinite(x) /\ RLe(Zero, x) /\ RLt(x, One)

\* C3: after a pass that completes without a fatal abort every edge's
\* discharge haematocrit is a single value in [0, 1); stated for hd a
\* float64 array, which cannot hold anything but single values.
C3_HdInUnitRange ==
    (passState = "done" /\ hdKind = "float64") => \A e \in Edges(net) : InUnitRange(hd[e])

\* the RBC flux through the edges of q, with the haematocrits h
RECURSIVE Flux(_, _, _)
Flux(n, h, q) ==
    IF q = <<>> THEN Zero
    ELSE RAdd(RMul(Fl(n, Head(q)), h[Head(q)]), Flux(n, h, Tail(q)))

\* the interior configurations that have a handler (lines 602-659)
Handled(np, nd) ==
    <<np, nd>> \in {<<1, 1>>, <<1, 2>>, <<1, 3>>, <<2, 1>>, <<2, 2>>, <<3, 1>>}

\* the RBC flux into node v equals the flux out of it within the tolerance
Balanced(v) ==
    Within(Flux(net, hd, parent_edge_of(net, ordered_node, v)),
           Flux(net, hd, edge_daughter_of(net, ordered_node, v)))

\* C5: at the end of a pass that completes without a fatal abort, every
\* non-boundary node whose configuration was processed has equal RBC flux
\* in and out within 1e-5; stated for hd a float64 array.
C5_BalancedAtEndOfPass ==
    (passState = "done" /\ hdKind = "float64") =>
        \A v \in Nodes(net) :
            (/\ ~IsBoundary(net, v)
             /\ Handled(Count(parent_edge_of(net, ordered_node, v)),
                        Count(edge_daughter_of(net, ordered_node, v))))
            => Balanced(v)

(***************************************************************************)
(* Properties of the phase-separation law.                                 *)
(***************************************************************************)
\* the call of get_erythrocyte_fraction has returned
Returned == pslIn.status = "ready" /\ pslOut.status = "return"

\* the RBC flux that leaves through the two daughters
FluxOut == RAdd(RMul(pslOut.hemat_a, pslIn.flow_a), RMul(pslOut.hemat_b, pslIn.flow_b))

\* C4: for every call of the law that returns, haematocrit_a * flow_a +
\* haematocrit_b * flow_b equals haematocrit_p * flow_p within 1e-5.
C4_FluxConserved ==
    Returned => Within(FluxOut, RMul(pslIn.hemat_par, pslIn.flow_parent))

\* the shares have been appended to fractional_a_qRBCs / fractional_b_qRBCs
\* (lines 325-326, before the exit test of line 333)
Recorded == pslIn.status = "ready" /\ pslOut.status \in {"return", "exit"}

\* C6: in every call of the law the two recorded fractional RBC shares sum
\* to exactly 1, with and without saturation redistribution.
C6_SharesSumToOne ==
    Recorded => RAdd(pslOut.fractional_qRBCa, pslOut.fractional_qRBCb) = One

\* the redistribution has moved share from one daughter to the other
C6_Witness ==
    /\ Recorded
    /\ pslOut.region = 2
    /\ RLt(threshold, pslOut.pre_b)
    /\ RLt(Zero, pslOut.fractional_qRBCb)
    /\ RAdd(pslOut.fractional_qRBCa, pslOut.fractional_qRBCb) = One

\* C7: both returned haematocrits are >= 0 and < 1, and none lies strictly
\* between 0.99 and 1.
C7_ReturnedBelowThreshold ==
    Returned =>
        /\ InUnitRange(pslOut.hemat_a) /\ InUnitRange(pslOut.hemat_b)
        /\ RLe(pslOut.hemat_a, threshold) /\ RLe(pslOut.hemat_b, threshold)

\* flow_p * haematocrit_p / flow of a daughter
AllTo(flow) == RDiv(RMul(pslIn.hemat_par, pslIn.flow_parent), flow)

\* ff_a <= x0
LowSide == RLe(pslOut.fractional_flow_a, pslOut.x_0)

\* ff_a >= 1 - x0
HighSide == RGe(pslOut.fractional_flow_a, RSub(One, pslOut.x_0))

\* C8 (as the spec states it): whenever ff_a <= x0 the result is exactly
\* (0, flow_p*haematocrit_p/flow_b) and whenever ff_a >= 1 - x0 it is exactly
\* the mirror image, for every x0; stated for daughters that both carry flow.
C8_SaturatedRegionsExact ==
    (Returned /\ RLt(Zero, pslIn.flow_a) /\ RLt(Zero, pslIn.flow_b)) =>
        /\ LowSide => (pslOut.hemat_a = Zero /\ pslOut.hemat_b = AllTo(pslIn.flow_b))
        /\ HighSide => (pslOut.hemat_b = Zero /\ pslOut.hemat_a = AllTo(pslIn.flow_a))

\* C8 (as the code has it): ff_a <= x0 is tested first and gives exactly
\* (0, flow_p*haematocrit_p/flow_b) when daughter b has flow and that value
\* is below the 0.99 threshold; ff_a >= 1 - x0 gives the mirror image only
\* when ff_a > x0, daughter a has flow and its value is below 0.99.
C8_FirstBranchWins ==
    Returned =>
        /\ (LowSide /\ RLt(Zero, pslIn.flow_b) /\ RLt(AllTo(pslIn.flow_b), threshold))
             => (pslOut.hemat_a = Zero /\ pslOut.hemat_b = AllTo(pslIn.flow_b))
        /\ (HighSide /\ ~LowSide /\ RLt(Zero, pslIn.flow_a)
              /\ RLt(AllTo(pslIn.flow_a), threshold))
             => (pslOut.hemat_b = Zero /\ pslOut.hemat_a = AllTo(pslIn.flow_a))

\* both conditions hold at once (x0 >= 0.5), both daughters have flow, and
\* the call returned all the RBCs in daughter b
C8_Witness ==
    /\ Returned
    /\ LowSide /\ HighSide
    /\ RLt(Zero, pslIn.flow_a) /\ RLt(Zero, pslIn.flow_b)
    /\ RLt(Zero, pslOut.hemat_b)
    /\ pslOut.hemat_a = Zero /\ pslOut.hemat_b = AllTo(pslIn.flow_b)

(***************************************************************************)
(* Properties of the outer loop.                                           *)
(***************************************************************************)
\* C9: every run of the outer loop terminates, whatever the residuals are
\* and whatever the iteration counter is when the loop is entered.
C9_LoopTerminates == <>(loopState # "running")

\* C10: a run entered at iteration 0 whose residual is at or below the
\* threshold whenever it is computed leaves the loop as CONVERGED.
C10_ConvergedFromFreshStart ==
    (entry = 0 /\ allLow /\ loopState = "exited") => outcome = "CONVERGED"

\* C11: whenever the outer loop has exited, as CONVERGED or as CAPPED, the
\* result snapshot has been written before the exit; stated for a run
\* entered with a fresh iteration counter.
C11_PersistedOnExit ==
    (entry = 0 /\ loopState = "exited") => pickled

(***************************************************************************)
(* Properties of the loop body.                                            *)
(***************************************************************************)
\* the order of the stages as the description of the loop gives it
ClaimedOrder ==
    <<"update_transmissibility", "build_linear_system", "update_pressure_flow",
      "update_velocity", "update_hd", "check_flow_balance", "berg_convergence">>

\* an iteration has run up to the exit tests of the loop
IterationDone == loopState \in {"running", "exited"} /\ stage \in {0, 1} /\ ran # <<>>

InputFields(n) ==
    <<n.pressure, n.has_pressure, n.flow_rate, n.diameter, n.ht, n.nr_of_vs,
      n.nr_of_es, n.edge_list, n.boundary_vs>>

Sum3(q) == RAdd(RAdd(q[1], q[2]), q[3])

\* the RBC fluxes flow * haematocrit of a side
Fluxes(f, h) == <<RMul(f[1], h[1]), RMul(f[2], h[2]), RMul(f[3], h[3])>>

\* |x - y| <= 1e-5
Close(x, y) == RLe(RAbs(RSub(x, y)), <<1, 100000>>)

QrcsReturned == fnIn.fn = "qRCS" /\ fnOut.status = "return"

\* C14: for each of the five shapes qRCS returns 0 if and only if both the
\* flows and the RBC fluxes of parents and daughters agree within 1e-5, and
\* returns 1 in every other case.
C14_QrcsIff ==
    QrcsReturned =>
        /\ fnOut.value \in {0, 1}
        /\ fnOut.value = 0 <=>
              /\ Close(Sum3(fnIn.pf), Sum3(fnIn.df))
              /\ Close(Sum3(Fluxes(fnIn.pf, fnIn.ph)), Sum3(Fluxes(fnIn.df, fnIn.dh)))

\* a 3/1 call whose flows agree to exactly 1e-5 and whose fluxes differ by
\* more has returned 1
C14_Witness ==
    /\ QrcsReturned /\ fnIn.case = 5 /\ fnOut.value = 1
    /\ RSub(Sum3(fnIn.pf), Sum3(fnIn.df)) = <<1, 100000>>
    /\ ~Close(Sum3(Fluxes(fnIn.pf, fnIn.ph)), Sum3(Fluxes(fnIn.df, fnIn.dh)))

\* the loop over the nodes has ended and the check of lines 661-665 is made
EndOfPass == net.has_pressure /\ idx = net.nr_of_vs + 1 /\ passState \in {"done", "aborted"}

\* C15: the counter of a pass is the number of qRCS calls of the pass that
\* returned 1, whatever handler made them, and at the end of the pass the
\* pass aborts if and only if at least one call returned 1.
C15_ImbalanceCounted ==
    /\ passState \in {"running", "done", "aborted"} => rbc_balance = last.qrcs_ones
    /\ EndOfPass => (passState = "aborted" <=> last.qrcs_ones > 0)

\* a pass in which a qRCS call has returned 1, which has gone on to its last
\* node and has aborted at its end
C15_Witness ==
    /\ EndOfPass /\ passState = "aborted" /\ abort = "TypeError"
    /\ last.qrcs_ones > 0

\* the pairs (#parents, #daughters) the description of the dispatch lists
ListedPairs ==
    {<<0, 1>>, <<1, 0>>, <<0, 2>>, <<2, 0>>, <<1, 1>>, <<2, 1>>, <<1, 2>>, <<3, 0>>,
     <<0, 3>>, <<1, 3>>}

\* a node has been processed whose pair is not listed
UnlistedProcessed == last.node # Unbound /\ <<last.n_parent, last.n_daughter>> \notin ListedPairs

BoundaryCases ==
    {<<0, 1>>, <<1, 0>>, <<0, 2>>, <<2, 0>>, <<1, 1>>, <<2, 1>>, <<3, 0>>, <<0, 3>>, <<1, 2>>}

\* a node has been processed whose pair has no handler for its kind
UnhandledProcessed ==
    /\ last.node # Unbound
    /\ IF last.boundary THEN <<last.n_parent, last.n_daughter>> \notin BoundaryCases
       ELSE ~Handled(last.n_parent, last.n_daughter)

FlowViolated ==
    \/ \E v \in Nodes(net) :
          ~IsBoundary(net, v) /\ RGe(RAbs(get_flow_balance(net)[v]), tol_flow(net))
    \/ RGe(RAbs(SumAt(get_flow_balance(net), net.boundary_vs)), tol_flow(net))

\* the process has been ended by an exit or an exception
Terminated == passState = "aborted" \/ loopState = "aborted"

\* no node is processed, no stage runs and no iteration starts in this step
NothingRuns == UNCHANGED <<hd, idx, written, rbc_balance, stage, ran, iteration, passNo, pickled>>

\* the step ends the process where it stands
TerminatesThere ==
    /\ Terminated'
    /\ UNCHANGED <<hd, idx, written, stage, iteration, passNo, pickled>>

\* a split leaves a haematocrit of 1 or more after clamping, or the pass
\* reaches its end with a nonzero imbalance count
FatalInPass ==
    \/ passState = "running" /\ last'.psl.status = "exit"
    \/ passState = "running" /\ idx = net.nr_of_vs + 1 /\ rbc_balance > 0

\* C17 (as the spec states it): once a fatal inconsistency occurs (a split
\* haematocrit of 1 or more after clamping, a nonzero imbalance count at the
\* end of a pass, a flow field out of balance when check_flow_balance is
\* called) the process terminates there: no further node is processed, no
\* later stage runs and no further iteration starts.
C17_FatalTerminates ==
    [][/\ FatalInPass => TerminatesThere
       /\ (InStage("check_flow_balance") /\ FlowViolated) => TerminatesThere
       /\ Terminated => NothingRuns]_vars

\* C17 (as the code has it): the same, with the flow field tested by every
\* call of check_flow_balance but the one that finds no cached tollerance.
C17_DetectedFatalTerminates ==
    [][/\ FatalInPass => TerminatesThere
       /\ (InStage("check_flow_balance") /\ fn_tollerance # "None" /\ FlowViolated)
            => TerminatesThere
       /\ Terminated => NothingRuns]_vars

\* the second flow-balance check of a run that began at iteration 0 has
\* ended the process on a flow field out of balance, after the haematocrit
\* pass of that iteration had returned
C17_Witness ==
    /\ loopState = "aborted" /\ passState = "returned"
    /\ entry = 0 /\ iteration = 1 /\ FlowViolated
    /\ Stages[stage] = "check_flow_balance"

\* a pass has been ended by the exit of the split, before its last node
C17_WitnessSplit ==
    /\ loopState = "aborted" /\ passState = "aborted" /\ abort = "SystemExit"
    /\ last.psl.status = "exit" /\ idx <= net.nr_of_vs

\* the inlet case of the boundary nodes has been taken for the last node
InletProcessed == last.node # Unbound /\ last.boundary /\ last.n_parent = 0 /\ last.n_daughter = 1

\* C18: processing a boundary node with no parent and one daughter sets the
\* haematocrit of the daughter edge to the boundary haematocrit of the
\* node, and on the 2-node, 1-edge network the pass ends with the edge at
\* the boundary haematocrit.
C18_InletTakesBoundaryHd ==
    /\ InletProcessed =>
          /\ last.status = "ok"
          /\ hd[loc.single_daughter] = BoundaryHd(net, last.node)
    /\ (net.nr_of_vs = 2 /\ net.nr_of_es = 1 /\ net.has_pressure /\ passState # "running") =>
          /\ passState = "done"
          /\ hd[0] = BoundaryHd(net, ordered_node[1])

ConfluenceReturned ==
    fnIn.fn \in {"hematocrit_2_1", "hematocrit_3_1"} /\ fnOut.status = "return"

\* the orders in which the parents of the call can be passed
ParentOrders ==
    {p \in [1..3 -> 1..3] :
        /\ \A i, j \in 1..3 : i # j => p[i] # p[j]
        /\ fnIn.fn = "hematocrit_2_1" => p[3] = 3}

\* the call with its parents passed in the order p
Reordered(in, p) ==
    [in EXCEPT !.pf = <<in.pf[p[1]], in.pf[p[2]], in.pf[p[3]]>>,
               !.ph = <<in.ph[p[1]], in.ph[p[2]], in.ph[p[3]]>>]

\* C19: at a confluence of two, and of three, parents the haematocrit of the
\* daughter is the flow-weighted average of the haematocrits of the parents
\* (where the parents carry flow), and the haematocrit and the mass-balance
\* result are the same in whatever order the parents are passed.
C19_ConfluenceAverage ==
    ConfluenceReturned =>
        /\ Sum3(fnIn.pf) # Zero =>
              RMul(fnOut.value[1], Sum3(fnIn.pf)) = Sum3(Fluxes(fnIn.pf, fnIn.ph))
        /\ \A p \in ParentOrders : Apply(Reordered(fnIn, p)) = fnOut.value

\* a 2/1 call with unequal parent flows and haematocrits 0.4 and 0.6 has
\* returned the weighted average, which is not the plain mean, and balance 0
C19_Witness ==
    /\ ConfluenceReturned /\ fnIn.fn = "hematocrit_2_1"
    /\ fnIn.pf[1] = <<1, 2>> /\ fnIn.pf[2] = Whole(1) /\ fnIn.df[1] = <<3, 2>>
    /\ fnIn.ph[1] = <<2, 5>> /\ fnIn.ph[2] = <<3, 5>>
    /\ fnOut.value = << <<8, 15>>, 0>>

\* a 3/1 call with three different parent flows and haematocrits has returned
C19_WitnessThree ==
    /\ ConfluenceReturned /\ fnIn.fn = "hematocrit_3_1"
    /\ fnIn.pf[1] # fnIn.pf[2] /\ fnIn.pf[2] # fnIn.pf[3] /\ fnIn.pf[1] # fnIn.pf[3]
    /\ fnIn.ph[1] # fnIn.ph[2]
    /\ fnOut.value[2] = 0

\* the last node processed is an interior node with one parent and one
\* daughter
PassThroughProcessed ==
    last.node # Unbound /\ ~last.boundary /\ last.n_parent = 1 /\ last.n_daughter = 1

PosIn(order, node) == CHOOSE k \in 1..Len(order) : order[k] = node

\* the endpoint of edge e that is not `node` (the node itself for a loop)
OtherEnd(n, e, node) ==
    IF n.edge_list[e][1] = node THEN n.edge_list[e][2] ELSE n.edge_list[e][1]

\* the incident edges of `node` whose other endpoint is processed before it
EarlierEdges(n, order, node) ==
    {e \in Incident(n, node) : PosIn(order, OtherEnd(n, e, node)) < PosIn(order, node)}

NoRepeat(q) == Cardinality(Range(q)) = Len(q)

\* C21: for the node just processed, the parent list holds exactly the
\* incident edges whose other endpoint comes earlier in the processing
\* order, the daughter list holds every other incident edge, no edge occurs
\* twice, and the two lists are disjoint and together are the incident edges.
C21_ClassifierPartition ==
    last.node # Unbound =>
        /\ Range(last.parent_edge) = EarlierEdges(net, ordered_node, last.node)
        /\ Range(last.edge_daughter) =
              Incident(net, last.node) \ EarlierEdges(net, ordered_node, last.node)
        /\ NoRepeat(last.parent_edge) /\ NoRepeat(last.edge_daughter)
        /\ Range(last.parent_edge) \cap Range(last.edge_daughter) = {}
        /\ Range(last.parent_edge) \cup Range(last.edge_daughter) = Incident(net, last.node)

\* a node reached by two parallel edges from the same earlier node, and with
\* two daughters, has been classified
C21_Witness ==
    /\ last.node # Unbound
    /\ Len(last.parent_edge) = 2 /\ Len(last.edge_daughter) = 2
    /\ net.edge_list[last.parent_edge[1]] = net.edge_list[last.parent_edge[2]]

\* the sum of the flow magnitudes of the edges of a list
RECURSIVE FlowSum(_, _)
FlowSum(n, q) == IF q = <<>> THEN Zero ELSE RAdd(Fl(n, Head(q)), FlowSum(n, Tail(q)))

\* a boundary node with real parents and real daughters has been given a
\* ghost vessel (lines 487-512, 515-544, 566-599)
GhostProcessed ==
    /\ last.node # Unbound /\ last.boundary
    /\ <<last.n_parent, last.n_daughter>> \in {<<1, 1>>, <<2, 1>>, <<1, 2>>}
    /\ last.handler \in {"h12", "h13", "h21", "h31"}

\* the flow the handler was given for the ghost
GhostFlow ==
    CASE last.handler = "h21" -> last.args[2]
      [] last.handler = "h31" -> last.args[3]
      [] last.handler = "h13" -> last.args[5]
      [] last.why = "outflow ghost" -> last.args[4]
      [] OTHER -> RSub(last.args[1], FlowSum(net, last.parent_edge))

\* what the daughters carry more than the parents
Surplus == RSub(FlowSum(net, last.edge_daughter), FlowSum(net, last.parent_edge))

\* C22: the flow of a ghost vessel is |sum of the magnitudes of the real
\* daughter flows - sum of the magnitudes of the real parent flows|, whatever
\* the sign of the stored flow rates, and the ghost is a parent when the
\* daughters carry more flow and a daughter otherwise.
C22_GhostClosesBalance ==
    GhostProcessed =>
        /\ GhostFlow = RAbs(Surplus)
        /\ last.why = "inflow ghost" <=> RLt(Zero, Surplus)

\* the call of the law has ended: it has returned, exited or raised
Ended == pslIn.status = "ready" /\ pslOut.status # "idle"

\* C23: whenever flow_a < 1e-36 the law returns haematocrit 0 for daughter
\* a with every RBC assigned to daughter b, and symmetrically for flow_b;
\* the result carries no quotient by the near-zero flow.
C23_NearZeroFlowGuard ==
    Ended =>
        /\ BelowTiny(pslIn.flow_a) =>
              /\ pslOut.status = "return"
              /\ pslOut.hemat_a = Zero /\ ~IsNaN(pslOut.hemat_b)
              /\ pslOut.fractional_qRBCa = Zero /\ pslOut.fractional_qRBCb = One
        /\ (BelowTiny(pslIn.flow_b) /\ ~BelowTiny(pslIn.flow_a)) =>
              /\ pslOut.status = "return"
              /\ pslOut.hemat_b = Zero /\ ~IsNaN(pslOut.hemat_a)
              /\ pslOut.fractional_qRBCb = Zero /\ pslOut.fractional_qRBCa = One

(***************************************************************************)
(* Properties of the composite residual.                                   *)
(***************************************************************************)
\* C24: in every iteration but the one that brings the counter to 1 the
\* composite residual is [1 / (boundary haematocrit * inflow)] * (sum of the
\* absolute local RBC imbalances) + (pressure + flow + haematocrit change
\* criteria); the iteration that brings the counter to 1 computes none; and
\* the convergence test, which reads the residual when the counter is above
\* 2, never finds it unbound.
C24_BergResidual ==
    /\ berg # NoBerg =>
          RMul(berg.residual, RMul(berg.boundary_hematocrit, berg.inflow)) =
              RAdd(SumAbs(berg.local_balance_rbc),
                   RMul(RAdd(RAdd(berg.criteria[1], berg.criteria[2]), berg.criteria[3]),
                        RMul(berg.boundary_hematocrit, berg.inflow)))
    /\ IterationDone =>
          /\ iteration = 1 <=> berg = NoBerg
          /\ iteration > 2 => residual_berg # "unbound"
          /\ iteration = 1 /\ entry = 0 => residual_berg = "unbound"

\* the second iteration of a fresh run has computed a residual from nonzero
\* imbalances and nonzero change criteria, and the loop goes on
C24_Witness ==
    /\ IterationDone /\ entry = 0 /\ iteration = 2 /\ loopState = "running"
    /\ berg # NoBerg /\ berg.inflow = Whole(2)
    /\ berg.local_balance_rbc # <<Zero, Zero>> /\ berg.criteria[1] # Zero
    /\ berg.residual = <<11, 9>> /\ residual_berg = "high"

(***************************************************************************)
(* Properties of check_flow_balance.                                       *)
(***************************************************************************)
\* check_flow_balance has been called in this iteration
FlowCheckCalled == \E i \in DOMAIN ran : ran[i] = "check_flow_balance"

\* the net flow of an interior node, or the net flow summed over the
\* boundary nodes, exceeds the tolerance
BeyondTolerance ==
    \/ \E v \in Nodes(net) :
          ~IsBoundary(net, v) /\ RLt(tol_flow(net), RAbs(get_flow_balance(net)[v]))
    \/ RLt(tol_flow(net), RAbs(SumAt(get_flow_balance(net), net.boundary_vs)))

\* the net flow of every interior node, and the net flow summed over the
\* boundary nodes, is exactly zero
PerfectlyBalanced ==
    /\ \A v \in Nodes(net) : ~IsBoundary(net, v) => get_flow_balance(net)[v] = Zero
    /\ SumAt(get_flow_balance(net), net.boundary_vs) = Zero

\* C25: every call of check_flow_balance, the first one included, ends the
\* process if the flow field is out of balance beyond the tolerance, and
\* no call ends the process on a perfectly balanced flow field.
C25_EveryCallValidates ==
    FlowCheckCalled =>
        /\ BeyondTolerance => loopState = "aborted"
        /\ PerfectlyBalanced => loopState # "aborted"

(***************************************************************************)
(* The edges a node's processing writes.                                   *)
(***************************************************************************)
\* C26: the processing of a node assigns the haematocrit only of edges that
\* the classifier listed as daughters of that node: never of a parent edge
\* of the node, never of an edge that is not incident to it.
C26_WritesOnlyOwnDaughters ==
    last.node # Unbound => Targets(last.writes) \subseteq Range(last.edge_daughter)

(***************************************************************************)
(* A run of the outer loop entered with a fresh counter.                   *)
(***************************************************************************)
\* C27: a run of the outer loop entered with the iteration counter at 0, in
\* which no iteration aborts, raises the counter by one per iteration, goes
\* on at every counter below 2000 and leaves at counter 2000 through the cap
\* branch, whatever the residuals are: the convergence branch and its
\* snapshot write are never taken.
C27_FreshRunEndsAtCap ==
    [][(entry = 0 /\ loopState = "running" /\ loopState' # "aborted") =>
         /\ iteration' = iteration + 1
         /\ (loopState' = "exited") = (iteration' = max_iteration)
         /\ loopState' = "exited" =>
               outcome' = "CAPPED" /\ pickled' = FALSE /\ convergence_check']_vars

\* such a run has left the loop although every residual it computed was at
\* or below the threshold
C27_Witness ==
    /\ entry = 0 /\ loopState = "exited" /\ allLow
    /\ iteration = max_iteration /\ outcome = "CAPPED" /\ ~pickled

\* such a run has left the loop with a residual above the threshold
C27_WitnessHigh ==
    /\ entry = 0 /\ loopState = "exited" /\ residual_berg = "high"
    /\ iteration = max_iteration /\ outcome = "CAPPED"

(***************************************************************************)
(* The classification of an edge at its two endpoints.                     *)
(***************************************************************************)
\* the nodes at which edge e is listed as a daughter, and as a parent, in a
\* pass over the network in the given order
DaughterAt(n, order, e) == {v \in Nodes(n) : e \in Range(edge_daughter_of(n, order, v))}

ParentAt(n, order, e) == {v \in Nodes(n) : e \in Range(parent_edge_of(n, order, v))}

\* the endpoint of e that the order processes first, and the other one
FirstEnd(n, order, e) ==
    IF PosIn(order, n.edge_list[e][1]) < PosIn(order, n.edge_list[e][2])
    THEN n.edge_list[e][1] ELSE n.edge_list[e][2]

SecondEnd(n, order, e) == OtherEnd(n, e, FirstEnd(n, order, e))

Proper(n, e) == n.edge_list[e][1] # n.edge_list[e][2]

\* C28: in a pass every edge with two distinct endpoints is a daughter at
\* exactly one node, the endpoint processed first, and a parent at exactly
\* one node, its other endpoint, also when the two endpoints have the same
\* pressure; the lists of the node just processed agree with that.
C28_DaughterOnceParentOnce ==
    /\ \A e \in Edges(net) : Proper(net, e) =>
          /\ DaughterAt(net, ordered_node, e) = {FirstEnd(net, ordered_node, e)}
          /\ ParentAt(net, ordered_node, e) = {SecondEnd(net, ordered_node, e)}
    /\ last.node # Unbound =>
          /\ \A e \in Range(last.edge_daughter) : Proper(net, e) =>
                FirstEnd(net, ordered_node, e) = last.node
          /\ \A e \in Range(last.parent_edge) : Proper(net, e) =>
                SecondEnd(net, ordered_node, e) = last.node

TieEdge(n, e) == Proper(n, e) /\ n.pressure[n.edge_list[e][1]] = n.pressure[n.edge_list[e][2]]

\* the second endpoint of an edge between two nodes of equal pressure has
\* been processed and has that edge among its parents
C28_Witness ==
    /\ last.node # Unbound
    /\ \E e \in Range(last.parent_edge) : TieEdge(net, e)

\* the first endpoint of such an edge has been processed
C28_WitnessFirst ==
    /\ last.node # Unbound
    /\ \E e \in Range(last.edge_daughter) : TieEdge(net, e)

(***************************************************************************)
(* A side with more than three edges.                                      *)
(***************************************************************************)
\* a node with more than three edges on one side has been processed
CrowdedProcessed ==
    last.node # Unbound /\ (Len(last.parent_edge) > 3 \/ Len(last.edge_daughter) > 3)

\* a boundary node with four parents and one daughter has been processed
FourToOneProcessed ==
    /\ last.node # Unbound /\ last.boundary
    /\ Len(last.parent_edge) = 4 /\ Len(last.edge_daughter) = 1

\* C29: a side of a node with more than three edges is counted as 0 and the
\* node is dispatched with that count; a boundary node with four parents
\* and one daughter is handled as the inlet case (0, 1) and its daughter
\* takes the boundary haematocrit of the node.
C29_CrowdedSideCountsZero ==
    /\ last.node # Unbound =>
          /\ Len(last.parent_edge) > 3 => last.n_parent = 0
          /\ Len(last.edge_daughter) > 3 => last.n_daughter = 0
    /\ FourToOneProcessed =>
          /\ last.handler = "b01" /\ last.why = "inflow ghost"
          /\ last.status = "ok"
          /\ hd[last.edge_daughter[1]] = BoundaryHd(net, last.node)

(***************************************************************************)
(* One parent and three daughters.                                         *)
(***************************************************************************)
\* a node in a one-parent/three-daughter configuration has been processed:
\* an interior node with one parent and three daughters, a boundary node
\* with three daughters and a ghost parent, or a boundary node with one
\* parent, two daughters and a ghost daughter
TrifurcationProcessed == last.node # Unbound /\ last.handler = "h13"

\* the haematocrit of the parent of the node just processed: that of its
\* parent edge, or the boundary haematocrit for a ghost parent
ParentHaematocrit ==
    IF Len(last.parent_edge) = 1 THEN hd[last.parent_edge[1]]
    ELSE BoundaryHd(net, last.node)

\* the flow of the ghost daughter of the node just processed (none: zero)
GhostDaughterFlow ==
    IF Len(last.edge_daughter) = 2
    THEN RSub(FlowSum(net, last.parent_edge), FlowSum(net, last.edge_daughter))
    ELSE Zero

\* the flow of the parent of the node just processed, a ghost parent
\* carrying the sum of the daughters
ParentFlow ==
    IF Len(last.parent_edge) = 1 THEN Fl(net, last.parent_edge[1])
    ELSE FlowSum(net, last.edge_daughter)

====
